---- MODULE Spec2Model ----
(***************************************************************************)
(* A model of the CAPPS XML converter (csv_to_capps_xml.py): the brand     *)
(* extractor with its persistent cache, the serials index, the purchase    *)
(* row filter, and the conversion run that builds the upload document.     *)
(*                                                                         *)
(* Text.  A Python str is a sequence of atoms.  An atom is a TLA+ string   *)
(* holding either a run of word characters ([A-Za-z0-9_]) or one single    *)
(* non-word character (" ", "-", "'", the double quote, "$", ",").  The    *)
(* inputs are cut into atoms so that no operation of the program splits an *)
(* atom: "ISI9" is <<"ISI", "9">>, "$150" is <<"$", "1", "5", "0">>.  The  *)
(* empty str is <<>>.                                                      *)
(*                                                                         *)
(* Time.  A datetime is a whole number of hours since an arbitrary epoch;  *)
(* the text "MM/DD/YYYY hh:mm:ss AM/PM" is the record of its fields        *)
(* [day, hh, ap] with the date kept as a day number and minutes and        *)
(* seconds dropped.                                                        *)
(***************************************************************************)
EXTENDS Integers, Sequences, FiniteSets, TLC

\* ------------------------------------------------------------------ bounds

\* Purchase rows read in one conversion run.
MaxRows == 2
\* Hours the wall clock may advance during one run.
MaxTicks == 1
\* Direct calls of extract_brand in the brand extractor's own specification.
MaxCalls == 3
\* Rows of a serials file in the serials index's own specification.
MaxSerialRows == 3
\* Threads the GUI starts in its own specification.
MaxStarts == 4
\* Messages, and empty messages, written to the redirector in its own specification.
MaxMessages == 4

\* -------------------------------------------------------------------- text

NonWordAtoms == {" ", "-", "'", "\"", "$", ",", "/"}

IsWordAtom(a) == a \notin NonWordAtoms

\* str.upper() on one atom: the lower- and mixed-case atoms of the inputs.
UpperAtom(a) ==
    CASE a = "isi" -> "ISI"
      [] a = "Isi" -> "ISI"
      [] a = "fender" -> "FENDER"
      [] a = "Fender" -> "FENDER"
      [] a = "strat" -> "STRAT"
      [] a = "used" -> "USED"
      [] a = "acme" -> "ACME"
      [] a = "custom" -> "CUSTOM"
      [] a = "black" -> "BLACK"
      [] a = "cream" -> "CREAM"
      [] a = "navy" -> "NAVY"
      [] a = "unknown" -> "UNKNOWN"
      [] OTHER -> a

upper(s) == [i \in 1..Len(s) |-> UpperAtom(s[i])]

RECURSIVE lstrip_chars(_, _)
lstrip_chars(s, chars) ==
    IF s # <<>> /\ Head(s) \in chars THEN lstrip_chars(Tail(s), chars) ELSE s

RECURSIVE rstrip_chars(_, _)
rstrip_chars(s, chars) ==
    IF s # <<>> /\ s[Len(s)] \in chars
    THEN rstrip_chars(SubSeq(s, 1, Len(s) - 1), chars)
    ELSE s

\* str.strip(): leading and trailing whitespace removed.
strip(s) == rstrip_chars(lstrip_chars(s, {" "}), {" "})

\* str.strip('"'): leading and trailing double quotes removed.
strip_quotes(s) == rstrip_chars(lstrip_chars(s, {"\""}), {"\""})

\* str.replace(c, ''): every occurrence of the one-character atom removed.
remove_atom(s, c) == SelectSeq(s, LAMBDA a : a # c)

startswith(s, prefix) ==
    /\ Len(s) >= Len(prefix)
    /\ SubSeq(s, 1, Len(prefix)) = prefix

\* len(s) in characters.
RECURSIVE char_len(_)
char_len(s) == IF s = <<>> THEN 0 ELSE Len(Head(s)) + char_len(Tail(s))

\* str.split(): the maximal runs of non-whitespace atoms, in order.
RECURSIVE split_words(_, _, _)
split_words(s, cur, acc) ==
    IF s = <<>>
    THEN IF cur = <<>> THEN acc ELSE Append(acc, cur)
    ELSE IF Head(s) = " "
         THEN split_words(Tail(s), <<>>, IF cur = <<>> THEN acc ELSE Append(acc, cur))
         ELSE split_words(Tail(s), Append(cur, Head(s)), acc)

split(s) == split_words(s, <<>>, <<>>)

\* ---------------------------------------------------------------- datetime

\* datetime.strptime(text.strip(), "%m/%d/%Y %I:%M:%S %p"): %I takes 01..12 and
\* %p takes AM or PM; anything else raises ValueError (ok = FALSE).
strptime(datetime_str) ==
    IF datetime_str.hh \in 1..12 /\ datetime_str.ap \in {"AM", "PM"}
    THEN [ok |-> TRUE,
          dt |-> datetime_str.day * 24 + (datetime_str.hh % 12)
                     + (IF datetime_str.ap = "PM" THEN 12 ELSE 0)]
    ELSE [ok |-> FALSE, dt |-> 0]

\* dt.strftime("%Y-%m-%dT%H:%M:%S"): the date and the hour on the 24-hour clock.
strftime(dt) == [date |-> dt \div 24, HH |-> dt % 24]

\* (a - b).days of a timedelta: the floor of the difference in days.
timedelta_days(a, b) == (a - b) \div 24

\* parse_aimsi_datetime always taking its fallback, the current time.
parse_aimsi_datetime_now(datetime_str, now_) == strftime(now_)

\* parse_aimsi_datetime: the timestamp in the CAPPS format, or the current time in
\* that format when the timestamp does not parse (lines 463-476).
parse_aimsi_datetime(datetime_str, now_) ==
    LET p == strptime(datetime_str)
    IN  IF p.ok THEN strftime(p.dt) ELSE strftime(now_)

\* ------------------------------------------------------------------ amount

Digits == {"0", "1", "2", "3", "4", "5", "6", "7", "8", "9"}

DigitValue(a) ==
    CASE a = "0" -> 0 [] a = "1" -> 1 [] a = "2" -> 2 [] a = "3" -> 3 [] a = "4" -> 4
      [] a = "5" -> 5 [] a = "6" -> 6 [] a = "7" -> 7 [] a = "8" -> 8 [] a = "9" -> 9

RECURSIVE digits_value(_, _)
digits_value(s, acc) ==
    IF s = <<>> THEN acc ELSE digits_value(Tail(s), 10 * acc + DigitValue(Head(s)))

\* float(text) on the texts of the model: a non-empty run of decimal digits is
\* its value, every other text raises ValueError (ok = FALSE).
float(s) ==
    IF s # <<>> /\ \A i \in 1..Len(s) : s[i] \in Digits
    THEN [ok |-> TRUE, value |-> digits_value(s, 0)]
    ELSE [ok |-> FALSE, value |-> 0]

\* float(amount.replace('$', '').replace(',', '').strip())
parse_amount(amount) == float(strip(remove_atom(remove_atom(amount, "$"), ",")))

\* ------------------------------------------------------------------ tables

\* BrandExtractor.KNOWN_BRANDS, in its order.
KNOWN_BRANDS == <<
    <<"FENDER">>, <<"GIBSON">>, <<"MARTIN">>, <<"TAYLOR">>, <<"YAMAHA">>,
    <<"EPIPHONE">>, <<"IBANEZ">>, <<"PRS">>, <<"GRETSCH">>, <<"RICKENBACKER">>,
    <<"GUILD">>, <<"WASHBURN">>, <<"DEAN">>, <<"JACKSON">>, <<"ESP">>, <<"SCHECTER">>,
    <<"CORT">>, <<"TAKAMINE">>, <<"OVATION">>, <<"SEAGULL">>, <<"BREEDLOVE">>,
    <<"JAY", " ", "TURSER">>, <<"SQUIER">>, <<"MITCHELL">>, <<"OSCAR", " ", "SCHMIDT">>,
    <<"LUNA">>, <<"ALVAREZ">>, <<"GODIN">>, <<"PARKER">>, <<"MUSIC", " ", "MAN">>,
    <<"STERLING">>, <<"CHAPMAN">>, <<"SOLAR">>, <<"HARLEY", " ", "BENTON">>,
    <<"ROLAND">>, <<"KORG">>, <<"CASIO">>, <<"KAWAI">>, <<"NORD">>, <<"KURZWEIL">>,
    <<"ALESIS">>, <<"AKAI">>, <<"NOVATION">>, <<"ARTURIA">>,
    <<"NATIVE", " ", "INSTRUMENTS">>, <<"MOOG">>, <<"SEQUENTIAL">>,
    <<"DAVE", " ", "SMITH">>, <<"BEHRINGER">>, <<"STEINWAY">>, <<"BALDWIN">>,
    <<"WURLITZER">>, <<"PEARL">>, <<"TAMA">>, <<"LUDWIG">>, <<"DW">>, <<"GRETSCH">>,
    <<"ZILDJIAN">>, <<"SABIAN">>, <<"PAISTE">>, <<"MEINL">>, <<"EVANS">>, <<"REMO">>,
    <<"MAPEX">>, <<"SONOR">>, <<"PACIFIC">>, <<"SIMMONS">>, <<"ALESIS">>, <<"ROLAND">>,
    <<"GIBRALTAR">>, <<"TOCA">>, <<"LP">>, <<"LATIN", " ", "PERCUSSION">>,
    <<"MARSHALL">>, <<"VOX">>, <<"FENDER">>, <<"ORANGE">>, <<"MESA">>,
    <<"MESA", " ", "BOOGIE">>, <<"PEAVEY">>, <<"LINE", " ", "6">>, <<"BOSS">>,
    <<"SHURE">>, <<"SENNHEISER">>, <<"AKG">>, <<"AUDIO", "-", "TECHNICA">>, <<"BLUE">>,
    <<"RODE">>, <<"NEUMANN">>, <<"MXL">>, <<"MACKIE">>, <<"PRESONUS">>, <<"FOCUSRITE">>,
    <<"BEHRINGER">>, <<"QSC">>, <<"JBL">>, <<"YAMAHA">>, <<"TASCAM">>, <<"ZOOM">>,
    <<"BLACKSTAR">>, <<"SELMER">>, <<"BUFFET">>, <<"JUPITER">>, <<"MENDINI">>,
    <<"JEAN", " ", "PAUL">>, <<"BUNDY">>, <<"ARMSTRONG">>, <<"GEMEINHARDT">>,
    <<"BACH">>, <<"CONN">>, <<"KING">>, <<"HOLTON">>, <<"GETZEN">>, <<"DUNLOP">>,
    <<"ERNIE", " ", "BALL">>, <<"DADDARIO">>, <<"D", "'", "ADDARIO">>, <<"ELIXIR">>,
    <<"GHS">>, <<"LEVY", "'", "S">>, <<"HERCULES">>, <<"ON", "-", "STAGE">>, <<"SKB">>,
    <<"GATOR">>, <<"HARDCASE">>, <<"MONO">>, <<"KALA">>, <<"CORDOBA">>, <<"HOHNER">>,
    <<"SUZUKI">>, <<"TRAYNOR">>, <<"RANDALL">>, <<"CRATE">>
>>

\* CAPPSConverter.category_map: category id, then subcategory id, to the label.
category_map ==
       <<"1">> :> (<<"1">> :> "ACCORDION" @@ <<"2">> :> "FLUTE" @@ <<"3">> :> "CLARINET"
            @@ <<"4">> :> "INSTRUMENT" @@ <<"7">> :> "HORN" @@ <<"8">> :> "TRUMPET"
            @@ <<"9">> :> "INSTRUMENT" @@ <<"14">> :> "VIOLIN"
            @@ <<"27">> :> "MUSICAL ACCESSORY" @@ <<"28">> :> "MUSICAL ACCESSORY"
            @@ <<"29">> :> "MUSICAL ACCESSORY" @@ <<"31">> :> "MUSICAL ACCESSORY")
    @@ <<"2">> :> (<<"1">> :> "FOOT PEDAL- AUDIO EQUIPMENT")
    @@ <<"3">> :> (<<"1">> :> "GUITAR" @@ <<"3">> :> "GUITAR" @@ <<"4">> :> "BASS"
            @@ <<"6">> :> "MUSICAL ACCESSORY" @@ <<"7">> :> "MUSICAL ACCESSORY"
            @@ <<"10">> :> "BANJO" @@ <<"11">> :> "MUSICAL ACCESSORY"
            @@ <<"19">> :> "MUSICAL ACCESSORY" @@ <<"20">> :> "MUSICAL ACCESSORY")
    @@ <<"4">> :> (<<"1">> :> "AMPLIFIER" @@ <<"2">> :> "AMPLIFIER"
            @@ <<"3">> :> "AMPLIFIER" @@ <<"4">> :> "AMPLIFIER" @@ <<"5">> :> "AMPLIFIER"
            @@ <<"6">> :> "AMPLIFIER" @@ <<"19">> :> "PREAMPLIFIER"
            @@ <<"20">> :> "MUSICAL ACCESSORY")
    @@ <<"5">> :> (<<"1">> :> "DRUM" @@ <<"2">> :> "CYMBAL" @@ <<"3">> :> "DRUM"
            @@ <<"4">> :> "DRUM" @@ <<"5">> :> "DRUM" @@ <<"6">> :> "MUSICAL ACCESSORY"
            @@ <<"7">> :> "DRUM" @@ <<"10">> :> "DRUM" @@ <<"20">> :> "MUSICAL ACCESSORY"
            @@ <<"21">> :> "MUSICAL ACCESSORY" @@ <<"22">> :> "MUSICAL ACCESSORY")
    @@ <<"6">> :> (<<"1">> :> "INSTRUMENT" @@ <<"2">> :> "INSTRUMENT")
    @@ <<"7">> :> (<<"1">> :> "SOUND EQUIPMENT" @@ <<"3">> :> "SOUND EQUIPMENT"
            @@ <<"4">> :> "AMPLIFIER" @@ <<"5">> :> "SOUND EQUIPMENT"
            @@ <<"8">> :> "SOUND EQUIPMENT" @@ <<"9">> :> "SOUND EQUIPMENT"
            @@ <<"10">> :> "SOUND EQUIPMENT" @@ <<"11">> :> "MUSICAL ACCESSORY"
            @@ <<"12">> :> "RECORDING EQUIPMENT" @@ <<"13">> :> "SOUND EQUIPMENT"
            @@ <<"20">> :> "MUSICAL ACCESSORY")
    @@ <<"9">> :> (<<"1">> :> "KEYBOARD" @@ <<"2">> :> "DRUM MACHINE"
            @@ <<"3">> :> "AMPLIFIER" @@ <<"6">> :> "MODULE"
            @@ <<"20">> :> "MUSICAL ACCESSORY")
    @@ <<"10">> :> (<<"1">> :> "MUSICAL ACCESSORY")
    @@ <<"12">> :> (<<"1">> :> "MUSICAL ACCESSORY" @@ <<"2">> :> "MUSICAL ACCESSORY"
            @@ <<"3">> :> "MUSICAL ACCESSORY" @@ <<"4">> :> "MUSICAL ACCESSORY"
            @@ <<"5">> :> "MUSICAL ACCESSORY" @@ <<"6">> :> "MUSICAL ACCESSORY"
            @@ <<"7">> :> "MUSICAL ACCESSORY" @@ <<"8">> :> "MUSICAL ACCESSORY"
            @@ <<"9">> :> "METRONOME" @@ <<"10">> :> "MUSICAL ACCESSORY"
            @@ <<"11">> :> "MUSICAL ACCESSORY" @@ <<"12">> :> "AMPLIFIER"
            @@ <<"13">> :> "MUSICAL ACCESSORY" @@ <<"14">> :> "MUSICAL ACCESSORY")
    @@ <<"22">> :> (<<"1">> :> "MUSICAL ACCESSORY" @@ <<"2">> :> "MUSICAL ACCESSORY"
            @@ <<"3">> :> "MUSICAL ACCESSORY")
    @@ <<"24">> :> (<<"1">> :> "MUSICAL ACCESSORY" @@ <<"2">> :> "MUSICAL ACCESSORY"
            @@ <<"3">> :> "MUSICAL ACCESSORY" @@ <<"4">> :> "MUSICAL ACCESSORY")
    @@ <<"25">> :> (<<"1">> :> "MUSICAL ACCESSORY" @@ <<"2">> :> "MUSICAL ACCESSORY"
            @@ <<"3">> :> "MUSICAL ACCESSORY")
    @@ <<"26">> :> (<<"1">> :> "MUSICAL ACCESSORY" @@ <<"2">> :> "MUSICAL ACCESSORY"
            @@ <<"3">> :> "MUSICAL ACCESSORY" @@ <<"4">> :> "MUSICAL ACCESSORY"
            @@ <<"5">> :> "MUSICAL ACCESSORY")

\* CAPPSConverter.color_map, in its order: color name, base color.
color_map == <<
    <<"BLACK", "BLACK">>, <<"WHITE", "WHITE">>, <<"RED", "RED">>, <<"BLUE", "BLUE">>,
    <<"GREEN", "GREEN">>, <<"YELLOW", "YELLOW">>, <<"ORANGE", "ORANGE">>,
    <<"PURPLE", "PURPLE">>, <<"BROWN", "BROWN">>, <<"GRAY", "GRAY">>,
    <<"GREY", "GRAY">>, <<"PINK", "PINK">>, <<"SILVER", "SILVER">>, <<"GOLD", "GOLD">>,
    <<"TAN", "TAN">>, <<"BEIGE", "TAN">>, <<"CREAM", "WHITE">>, <<"IVORY", "WHITE">>,
    <<"NATURAL", "BROWN">>, <<"SUNBURST", "BROWN">>, <<"TOBACCO", "BROWN">>,
    <<"CHERRY", "RED">>, <<"WINE", "RED">>, <<"BURGUNDY", "RED">>, <<"CRIMSON", "RED">>,
    <<"NAVY", "BLUE">>, <<"TEAL", "BLUE">>, <<"TURQUOISE", "BLUE">>,
    <<"VIOLET", "PURPLE">>, <<"LAVENDER", "PURPLE">>, <<"CHARCOAL", "GRAY">>,
    <<"SLATE", "GRAY">>, <<"AMBER", "ORANGE">>, <<"COPPER", "ORANGE">>
>>

\* --------------------------------------------------------- brand extractor

\* Python's None for a brand (the empty str is equally falsy in "if not brand")
\* and for the API key (an empty key is equally falsy in "if self.api_key").
NoBrand == <<>>
NoKey == ""

\* self.brand_patterns (lines 91-96): one case-insensitive pattern per known
\* brand, kept as the brand's atoms in upper case.
brand_patterns == [b \in 1..Len(KNOWN_BRANDS) |-> upper(KNOWN_BRANDS[b])]

\* pattern.search(description) for re.compile(r'\b' + re.escape(brand) + r'\b',
\* re.IGNORECASE), on the description in upper case: the brand's atoms occur in
\* it with a word boundary on both sides (the text's edge or a non-word atom).
pattern_search(pattern, desc_upper) ==
    \E i \in 1..(Len(desc_upper) - Len(pattern) + 1) :
        /\ desc_upper[i] = pattern[1]
        /\ \A k \in 2..Len(pattern) : desc_upper[i + k - 1] = pattern[k]
        /\ i = 1 \/ ~IsWordAtom(desc_upper[i - 1])
        /\ i + Len(pattern) - 1 = Len(desc_upper)
              \/ ~IsWordAtom(desc_upper[i + Len(pattern)])

prefixes_to_skip ==
    {<<"BROKEN">>, <<"USED">>, <<"NEW">>, <<"VINTAGE">>, <<"ANTIQUE">>, <<"ELECTRIC">>,
     <<"ACOUSTIC">>, <<"CLASSICAL">>, <<"DIGITAL">>, <<"ANALOG">>, <<"PORTABLE">>}

common_words == {<<"THE">>, <<"AND">>, <<"WITH">>, <<"FOR">>}

model_indicators == {"PAUL", "STANDARD", "CUSTOM", "SPECIAL", "DELUXE", "SERIES", "MODEL"}

\* str.isalnum(): non-empty and every character a letter or a digit.
isalnum(s) == s # <<>> /\ \A i \in 1..Len(s) : IsWordAtom(s[i])

\* The test of one word in the fallback loop: TRUE when the loop returns it.
word_is_brand(words, i, word_upper) ==
    /\ word_upper \notin prefixes_to_skip
    /\ char_len(words[i]) > 2
    /\ word_upper \notin common_words
    /\ \/ /\ i + 1 <= Len(words)
          /\ \E k \in 1..Len(words[i + 1]) :
                 UpperAtom(words[i + 1][k]) \in model_indicators
       \/ isalnum(remove_atom(remove_atom(word_upper, "-"), "'"))

\* The loop over the words of the description: the first word that passes.
RECURSIVE first_word(_, _)
first_word(words, i) ==
    IF i > Len(words)
    THEN <<"UNKNOWN">>
    ELSE IF word_is_brand(words, i, upper(words[i]))
         THEN upper(words[i])
         ELSE first_word(words, i + 1)

\* The least number of a non-empty set: the first entry of a table that matches.
Least(S) == CHOOSE x \in S : \A y \in S : x <= y

\* The loop over brand_patterns returns the first known brand found in the
\* description (hits: the entries that match); without one the fallback loop runs.
first_brand(hits, description) ==
    IF hits # {}
    THEN KNOWN_BRANDS[Least(hits)]
    ELSE first_word(split(description), 1)

brand_hits(desc_upper) ==
    {b \in 1..Len(KNOWN_BRANDS) : pattern_search(brand_patterns[b], desc_upper)}

extract_brand_with_patterns(description) ==
    first_brand(brand_hits(upper(description)), description)

\* An answer of 50 characters, the shortest one the length test refuses.
LongAnswer == <<"BBBBBBBBBBBBBBBBBBBBBBBBBBBBBBBBBBBBBBBBBBBBBBBBBB">>

\* The remote call's outcomes: requests.post raises (timeout, connection error),
\* or answers with a status code and, for 200, a body that response.json() or the
\* path to the answer's text fails on (well_formed = FALSE) or the answer's text.
ApiResponses ==
    { [kind |-> "timeout", status |-> 0, well_formed |-> FALSE, content |-> <<>>],
      [kind |-> "http", status |-> 500, well_formed |-> TRUE, content |-> <<>>],
      [kind |-> "http", status |-> 200, well_formed |-> FALSE, content |-> <<>>],
      [kind |-> "http", status |-> 200, well_formed |-> TRUE, content |-> <<" ", "acme", " ">>],
      [kind |-> "http", status |-> 200, well_formed |-> TRUE, content |-> <<"unknown">>],
      [kind |-> "http", status |-> 200, well_formed |-> TRUE, content |-> LongAnswer] }

NoResponse == [kind |-> "not called", status |-> 0, well_formed |-> FALSE, content |-> <<>>]

\* clean_answer taking whatever text the remote API answered for the brand.
clean_answer_any(brand) == brand

\* The answer's text cleaned up, or None when it is empty, UNKNOWN or too long.
clean_answer(brand) ==
    IF brand # <<>> /\ brand # <<"UNKNOWN">> /\ char_len(brand) < 50
    THEN brand
    ELSE NoBrand

\* extract_brand_with_groq and extract_brand_with_gemini, which differ in the URL
\* and the path of the answer inside the body only.
extract_brand_with_provider(description, api_key_, resp) ==
    IF api_key_ = NoKey
    THEN NoBrand
    ELSE IF resp.kind = "http" /\ resp.status = 200 /\ resp.well_formed
         THEN clean_answer(strip(remove_atom(remove_atom(upper(strip(resp.content)),
                                                         "\""), "'")))
         ELSE NoBrand

extract_brand_with_api(description, api_key_, api_provider_, resp) ==
    IF api_provider_ \in {"groq", "gemini"}
    THEN extract_brand_with_provider(description, api_key_, resp)
    ELSE NoBrand

\* The cache is a dict: a function from its keys to their brands.
EmptyCache == <<>>

\* save_cache: json.dump of the cache into the cache file; an exception (the file
\* cannot be opened) is swallowed and leaves the file as it was.
save_cache(cache_, disk_, save_ok) == IF save_ok THEN cache_ ELSE disk_

\* load_cache: the cache file's contents, or the empty cache when the file is
\* missing or unreadable.
load_cache(disk_, load_ok) == IF load_ok THEN disk_ ELSE EmptyCache

\* InCache with the lookup always missing: every call resolves the brand again and
\* stores it.
InCache_never(key, cache_) == FALSE

\* Line 290: cache_key in self.cache.
InCache(key, cache_) == key \in DOMAIN cache_

\* self.cache[key] = brand
CachePut(key, brand, cache_) ==
    [k \in DOMAIN cache_ \cup {key} |-> IF k = key THEN brand ELSE cache_[k]]

\* What a call of extract_brand returns and leaves behind: the brand, the cache and
\* the cache file after it, the tier that answered, and which of the remote API,
\* the pattern matcher and save_cache it called (written: save_cache's json.dump
\* went through).
BrandResult(brand, cache_, disk_, tier, api_called, patterns_called, save_called, written) ==
    [brand |-> brand, cache |-> cache_, disk |-> disk_, tier |-> tier,
     api_called |-> api_called, patterns_called |-> patterns_called,
     save_called |-> save_called, written |-> written]

\* The trace one call of extract_brand leaves in last_call: its description, what
\* it returned and did, and the remote API's response when it was called.
CallTrace(description, b, resp) ==
    [description |-> description, brand |-> b.brand, tier |-> b.tier,
     api_called |-> b.api_called, patterns_called |-> b.patterns_called,
     save_called |-> b.save_called, written |-> b.written,
     resp |-> IF b.api_called THEN resp ELSE NoResponse]

\* cache_result without the call of save_cache: the brand is cached in memory only.
cache_result_unsaved(cache_key, brand, cache_, disk_, save_ok, tier, api_called) ==
    BrandResult(brand, CachePut(cache_key, brand, cache_), disk_,
                tier, api_called, tier = "patterns", FALSE, FALSE)

\* Lines 302-306: the result is cached, the cache saved, the brand returned.
cache_result(cache_key, brand, cache_, disk_, save_ok, tier, api_called) ==
    BrandResult(brand, CachePut(cache_key, brand, cache_),
                save_cache(CachePut(cache_key, brand, cache_), disk_, save_ok),
                tier, api_called, tier = "patterns", TRUE, save_ok)

\* Lines 298-300: the pattern fallback when the API gave no brand.
resolve_brand(description, cache_key, api_brand, cache_, disk_, save_ok, api_called) ==
    IF api_brand = NoBrand
    THEN cache_result(cache_key, extract_brand_with_patterns(description), cache_, disk_,
                      save_ok, "patterns", api_called)
    ELSE cache_result(cache_key, api_brand, cache_, disk_, save_ok, "api", api_called)

\* Lines 288-291: the cache lookup under the normalized description.
lookup_brand(description, cache_key, cache_, disk_, api_key_, api_provider_, resp, save_ok) ==
    IF InCache(cache_key, cache_)
    THEN BrandResult(cache_[cache_key], cache_, disk_, "cache", FALSE, FALSE, FALSE, FALSE)
    ELSE resolve_brand(description, cache_key,
                       IF api_key_ # NoKey
                       THEN extract_brand_with_api(description, api_key_, api_provider_, resp)
                       ELSE NoBrand,
                       cache_, disk_, save_ok,
                       api_key_ # NoKey /\ api_provider_ \in {"groq", "gemini"})

\* extract_brand: the brand and the extractor's state after the call, with the
\* tiers the call went through.
extract_brand(description, cache_, disk_, api_key_, api_provider_, resp, save_ok) ==
    IF description = <<>>
    THEN BrandResult(<<"UNKNOWN">>, cache_, disk_, "empty", FALSE, FALSE, FALSE, FALSE)
    ELSE lookup_brand(description, strip(upper(description)), cache_, disk_,
                      api_key_, api_provider_, resp, save_ok)

\* ------------------------------------------------------------ serials index

\* index_row keeping the first row of a serial number instead of the last.
index_row_keep_first(row, serials_data_) ==
    IF Len(row) >= 11 /\ strip(row[2]) # <<>> /\ strip(row[2]) \notin DOMAIN serials_data_
    THEN [k \in DOMAIN serials_data_ \cup {strip(row[2])} |->
              IF k = strip(row[2])
              THEN [description |-> strip(row[7]), subcategory |-> strip(row[11])]
              ELSE serials_data_[k]]
    ELSE serials_data_

\* load_serials_data's loop over the rows of the serials file: a row of at least
\* 11 columns with a non-empty trimmed serial (column index 1) is indexed with its
\* trimmed description (index 6) and subcategory (index 10); a later row with the
\* same serial overwrites the earlier one.
index_row(row, serials_data_) ==
    IF Len(row) >= 11 /\ strip(row[2]) # <<>>
    THEN [k \in DOMAIN serials_data_ \cup {strip(row[2])} |->
              IF k = strip(row[2])
              THEN [description |-> strip(row[7]), subcategory |-> strip(row[11])]
              ELSE serials_data_[k]]
    ELSE serials_data_

RECURSIVE index_rows(_, _)
index_rows(rows, serials_data_) ==
    IF rows = <<>>
    THEN serials_data_
    ELSE index_rows(Tail(rows), index_row(Head(rows), serials_data_))

\* A line printed by the run, with the value it shows (0 when it shows none).
Line(text, n) == [text |-> text, n |-> n]

\* Where load_serials_data may fail on a file that cannot be read to its end:
\* 0 when open raises, k when the csv reader raises on reading row k.
SerialsFailures(serials_file) == 0..Len(serials_file)

\* The exception load_serials_data catches.
OpenError == "No such file or directory"
ReadError == "the csv reader raised"
exception_at(failed_at) == IF failed_at = 0 THEN OpenError ELSE ReadError

\* The rows load_serials_data has read when it stops.
rows_read(serials_file, read_ok, failed_at) ==
    IF read_ok THEN serials_file
    ELSE IF failed_at = 0 THEN <<>>
    ELSE SubSeq(serials_file, 1, failed_at - 1)

\* load_serials_data: the index of the rows read. serials_data is created before
\* the try block and returned after it, so when opening or reading the file raises
\* (the exception is printed and swallowed) the rows indexed before the exception
\* stay in the index returned.
load_serials_data(serials_file, read_ok, failed_at) ==
    index_rows(rows_read(serials_file, read_ok, failed_at), <<>>)

\* What load_serials_data prints: the exception it swallowed, if any, and the size
\* of the index it returns.
load_serials_printed(read_ok, failed_at, serials_data_) ==
    (IF read_ok THEN <<>> ELSE << Line("Error loading serials file", exception_at(failed_at)) >>)
    \o << Line("Loaded serial numbers with descriptions", Cardinality(DOMAIN serials_data_)) >>

\* ------------------------------------------------------------------- color

\* get_color: the base color of the first entry of color_map, in its order, whose
\* name stands between two spaces in the padded upper-cased description (a color
\* name is one atom).
first_color(hits) == IF hits # {} THEN color_map[Least(hits)][2] ELSE "Other"

color_hits(desc_upper) ==
    {i \in 1..Len(color_map) :
        \E k \in 2..(Len(desc_upper) - 1) :
            /\ desc_upper[k] = color_map[i][1]
            /\ desc_upper[k - 1] = " "
            /\ desc_upper[k + 1] = " "}

get_color(description) ==
    first_color(color_hits(<<" ">> \o upper(description) \o <<" ">>))

\* ---------------------------------------------------------------- customer

Elem(tag, text) == [tag |-> tag, text |-> text, nil |-> FALSE, children |-> <<>>]

\* A dateOfBirth or noFinger element filled in like its neighbours.
NilElem_on_file(tag) == Elem(tag, "on file")

\* An element without text, marked xsi:nil="true".
NilElem(tag) == [tag |-> tag, text |-> "", nil |-> TRUE, children |-> <<>>]

\* add_customer_data: the children appended to the customer element.
add_customer_data ==
    << Elem("custLastName", "on file"), Elem("custFirstName", "on file"),
       Elem("custMiddleName", "on file"), Elem("gender", "on file"),
       Elem("race", "on file"), Elem("hairColor", "on file"),
       Elem("eyeColor", "on file"), Elem("height", "on file"),
       Elem("weight", "on file"),
       NilElem("dateOfBirth"), Elem("dateOfBirthText", "on file"),
       Elem("streetAddress", "on file"), Elem("city", "on file"),
       Elem("state", "on file"), Elem("postalCode", "on file"),
       Elem("phoneNumber", "on file"), Elem("nonUSAddress", "on file"),
       [tag |-> "id", text |-> "", nil |-> FALSE,
        children |-> << Elem("type", "on file"), Elem("number", "on file"),
                        Elem("dateOfIssueText", "on file"), Elem("issueState", "on file"),
                        Elem("issueCountry", "on file"),
                        Elem("yearOfExpirationText", "on file") >>],
       NilElem("noFinger"), Elem("noFingerText", "on file"),
       Elem("signature", "on file"), Elem("fingerprint", "on file") >>

\* ------------------------------------------------------ purchase row filter

\* The recency check with the boundary day excluded (>= for >).
recency_of_exclusive(p, now_, days_lookback_) ==
    IF ~p.ok THEN "bad_date"
    ELSE IF timedelta_days(now_, p.dt) >= days_lookback_ THEN "too_old"
    ELSE IF timedelta_days(now_, p.dt) < 0 THEN "future"
    ELSE "ok"

\* The recency check letting a row through when its timestamp does not parse.
recency_of_lenient(p, now_, days_lookback_) ==
    IF ~p.ok THEN "ok"
    ELSE IF timedelta_days(now_, p.dt) > days_lookback_ THEN "too_old"
    ELSE IF timedelta_days(now_, p.dt) < 0 THEN "future"
    ELSE "ok"

\* Lines 617-632: the transaction's age in whole days against datetime.now().
recency_of(p, now_, days_lookback_) ==
    IF ~p.ok THEN "bad_date"
    ELSE IF timedelta_days(now_, p.dt) > days_lookback_ THEN "too_old"
    ELSE IF timedelta_days(now_, p.dt) < 0 THEN "future"
    ELSE "ok"

recency_check(datetime_str, now_, days_lookback_) ==
    recency_of(strptime(datetime_str), now_, days_lookback_)

\* The amount check against the default minimum cost of 100 instead of the
\* configured one.
amount_of_default(a, min_cost_) ==
    IF ~a.ok THEN "bad_amount"
    ELSE IF a.value < 100 THEN "below_min_cost"
    ELSE "ok"

\* amount_of rejecting an amount equal to the minimum cost as well.
amount_of_exclusive(a, min_cost_) ==
    IF ~a.ok THEN "bad_amount"
    ELSE IF a.value <= min_cost_ THEN "below_min_cost"
    ELSE "ok"

\* Lines 634-643: the amount against the minimum cost.
amount_of(a, min_cost_) ==
    IF ~a.ok THEN "bad_amount"
    ELSE IF a.value < min_cost_ THEN "below_min_cost"
    ELSE "ok"

amount_check(amount, min_cost_) == amount_of(parse_amount(amount), min_cost_)

\* The ISI exclusion without the include_isi_serials switch.
isi_excluded_always(serial_number, include_isi_serials_) ==
    /\ serial_number # <<>>
    /\ startswith(upper(serial_number), <<"ISI">>)

\* Line 646: the ISI exclusion.
isi_excluded(serial_number, include_isi_serials_) ==
    /\ ~include_isi_serials_
    /\ serial_number # <<>>
    /\ startswith(upper(serial_number), <<"ISI">>)

\* Line 651: the join with the serials index.
join_miss(serial_number, serials_data_) ==
    serial_number = <<>> \/ serial_number \notin DOMAIN serials_data_

\* Rejected with the element created before the checks: a block without fields
\* stays in the document.
Rejected_after_element(self_, reason, printed, bulk_data_) == [ret |-> FALSE, reason |-> reason, printed |-> printed, bulk_data |-> Append(bulk_data_, [transactionTime |-> <<>>]), cache |-> self_.cache, disk |-> self_.disk, brand_calls |-> <<>>]

Rejected(self_, reason, printed, bulk_data_) ==
    [ret |-> FALSE, reason |-> reason, printed |-> printed, bulk_data |-> bulk_data_,
     cache |-> self_.cache, disk |-> self_.disk, brand_calls |-> <<>>]

\* Line 688: the article label of a category and subcategory.
article_of(category_id, subcategory_id) ==
    IF category_id \in DOMAIN category_map
       /\ subcategory_id \in DOMAIN category_map[category_id]
    THEN category_map[category_id][subcategory_id]
    ELSE "INSTRUMENT"

\* Lines 662-712: the propertyTransaction element.
property_transaction(row, serial_number, description, subcategory_id, employee_name_, transaction_type, now_, brand) ==
    [transactionTime |-> parse_aimsi_datetime(row[1], now_),
     customer |-> add_customer_data,
     store |-> [employeeName |-> employee_name_],
     item |-> [type |-> transaction_type,
               loanBuyNumber |-> strip_quotes(strip(row[2])),
               amount |-> strip(row[3]),
               article |-> article_of(strip(row[4]), subcategory_id),
               brand |-> brand,
               model |-> description,
               serialNumber |-> IF serial_number # <<>> /\ serial_number # <<"0">>
                                THEN <<serial_number>> ELSE <<>>,
               description |-> description,
               inscription |-> "None",
               ownerAppliedNumber |-> "None",
               pattern |-> "None",
               color |-> get_color(description),
               material |-> "Unknown",
               itemSize |-> "Unknown",
               sizeUnit |-> "Unknown"]]

\* accept_row putting the element first in bulk_data instead of last.
accept_row_prepend(row, serial_number, description, subcategory_id, bulk_data_, employee_name_, now_, b, resp) ==
    [ret |-> TRUE, reason |-> "accepted", printed |-> <<>>,
     bulk_data |-> << property_transaction(row, serial_number, description,
                                           subcategory_id, employee_name_, "BUY",
                                           now_, b.brand) >> \o bulk_data_,
     cache |-> b.cache, disk |-> b.disk,
     brand_calls |-> << CallTrace(description, b, resp) >>]

\* Lines 662-715 with the brand extractor's answer b: the element is appended to
\* bulk_data and True returned.
accept_row(row, serial_number, description, subcategory_id, bulk_data_, employee_name_, now_, b, resp) ==
    [ret |-> TRUE, reason |-> "accepted", printed |-> <<>>,
     bulk_data |-> Append(bulk_data_,
                          property_transaction(row, serial_number, description,
                                               subcategory_id, employee_name_, "BUY",
                                               now_, b.brand)),
     cache |-> b.cache, disk |-> b.disk,
     brand_calls |-> << CallTrace(description, b, resp) >>]

\* serial_checks with the join tried before the ISI exclusion.
serial_checks_join_first(self_, row, serial_number, serials_data_, bulk_data_, employee_name_, env) ==
    IF join_miss(serial_number, serials_data_)
    THEN Rejected(self_, "no_match", <<>>, bulk_data_)
    ELSE IF isi_excluded(serial_number, self_.include_isi_serials)
    THEN Rejected(self_, "isi", <<>>, bulk_data_)
    ELSE IF strip(serials_data_[serial_number].description) = <<>>
    THEN Rejected(self_, "no_description", <<>>, bulk_data_)
    ELSE accept_row(row, serial_number, strip(serials_data_[serial_number].description),
                    serials_data_[serial_number].subcategory, bulk_data_, employee_name_,
                    env.now,
                    extract_brand(strip(serials_data_[serial_number].description),
                                  self_.cache, self_.disk, self_.api_key,
                                  self_.api_provider, env.resp, env.save_ok),
                    env.resp)

\* serial_checks without the description requirement.
serial_checks_any_description(self_, row, serial_number, serials_data_, bulk_data_, employee_name_, env) ==
    IF isi_excluded(serial_number, self_.include_isi_serials)
    THEN Rejected(self_, "isi", <<>>, bulk_data_)
    ELSE IF join_miss(serial_number, serials_data_)
    THEN Rejected(self_, "no_match", <<>>, bulk_data_)
    ELSE accept_row(row, serial_number, strip(serials_data_[serial_number].description),
                    serials_data_[serial_number].subcategory, bulk_data_, employee_name_,
                    env.now,
                    extract_brand(strip(serials_data_[serial_number].description),
                                  self_.cache, self_.disk, self_.api_key,
                                  self_.api_provider, env.resp, env.save_ok),
                    env.resp)

\* Lines 645-660: the ISI exclusion, the join and the description requirement.
serial_checks(self_, row, serial_number, serials_data_, bulk_data_, employee_name_, env) ==
    IF isi_excluded(serial_number, self_.include_isi_serials)
    THEN Rejected(self_, "isi", <<>>, bulk_data_)
    ELSE IF join_miss(serial_number, serials_data_)
    THEN Rejected(self_, "no_match", <<>>, bulk_data_)
    ELSE IF strip(serials_data_[serial_number].description) = <<>>
    THEN Rejected(self_, "no_description", <<>>, bulk_data_)
    ELSE accept_row(row, serial_number, strip(serials_data_[serial_number].description),
                    serials_data_[serial_number].subcategory, bulk_data_, employee_name_,
                    env.now,
                    extract_brand(strip(serials_data_[serial_number].description),
                                  self_.cache, self_.disk, self_.api_key,
                                  self_.api_provider, env.resp, env.save_ok),
                    env.resp)

\* Lines 617-643 with the outcomes of the two parses.
date_and_amount_checks(self_, row, recency, amt, serials_data_, bulk_data_, employee_name_, env) ==
    IF recency = "too_old"
    THEN Rejected(self_, "too_old", <<>>, bulk_data_)
    ELSE IF recency = "future"
    THEN Rejected(self_, "future", <<"Warning: Transaction has future date">>, bulk_data_)
    ELSE IF recency = "bad_date"
    THEN Rejected(self_, "bad_date", <<"Error parsing date for transaction">>, bulk_data_)
    ELSE IF amt = "below_min_cost"
    THEN Rejected(self_, "below_min_cost", <<>>, bulk_data_)
    ELSE IF amt = "bad_amount"
    THEN Rejected(self_, "bad_amount", <<"Warning: Could not parse amount">>, bulk_data_)
    ELSE serial_checks(self_, row, strip_quotes(strip(row[5])), serials_data_, bulk_data_,
                       employee_name_, env)

\* process_purchase_row: the return value, what was printed, and the document and
\* the brand extractor after the call; reason names the return statement taken.
process_purchase_row(self_, row, serials_data_, bulk_data_, employee_name_, env) ==
    IF Len(row) < 5
    THEN Rejected(self_, "incomplete", <<"Skipping incomplete row">>, bulk_data_)
    ELSE date_and_amount_checks(self_, row,
                                recency_check(row[1], env.now, self_.days_lookback),
                                amount_check(strip(row[3]), self_.min_cost),
                                serials_data_, bulk_data_, employee_name_, env)

\* ------------------------------------------------------------------ inputs

\* Transaction timestamps around the run's clock, which starts on day 10 at noon:
\* one in the future, one exactly 24 hours old, one 84 hours old, one that turns
\* from 1 day to 2 days old when the clock advances an hour, and one no strptime
\* accepts.
Timestamps ==
    { [day |-> 11, hh |-> 12, ap |-> "AM"],
      [day |-> 9, hh |-> 12, ap |-> "PM"],
      [day |-> 7, hh |-> 12, ap |-> "AM"],
      [day |-> 8, hh |-> 1, ap |-> "PM"],
      [day |-> 9, hh |-> 13, ap |-> "PM"] }

Amounts == { <<"$", "1", "5", "0">>, <<" ", "1", "0", "0">>, <<"abc">> }

Serials ==
    { <<"ABC123">>, <<"ISI", "9">>, <<" ", "isi", "7">>, <<>>, <<"\"", "B2", "\"">> }

PRow(ts, amount, category, serial) == <<ts, <<"1001">>, amount, category, serial>>

\* The rows a purchases file may hold: every combination of timestamp, amount and
\* serial number in category 3, one accepted row in two other categories, and a
\* row of three columns.
PurchaseRows ==
    { PRow(ts, a, <<"3">>, s) : ts \in Timestamps, a \in Amounts, s \in Serials }
    \cup { PRow([day |-> 9, hh |-> 12, ap |-> "PM"], <<"$", "1", "5", "0">>, c, <<"ABC123">>) :
               c \in { <<" ", "4">>, <<"99">> } }
    \cup { << [day |-> 9, hh |-> 12, ap |-> "PM"], <<"1002">>, <<"$", "1", "5", "0">> >> }

Filler == <<"x">>

SRow(serial, description, subcategory) ==
    << Filler, serial, Filler, Filler, Filler, Filler, description,
       Filler, Filler, Filler, subcategory >>

\* The serials file: a serial listed twice, an ISI serial, a serial with a blank
\* description, a row of three columns and a row with a blank serial.
SerialsFile ==
    << SRow(<<"ABC123">>, <<"Fender", " ", "acme">>, <<"1">>),
       SRow(<<" ", "ABC123">>, <<"FENDER", " ", "STRATOCASTER">>, <<" ", "3">>),
       SRow(<<"ISI", "9">>, <<"used", " ", "acme", " ", "custom", " ", "black", " ">>, <<"4">>),
       SRow(<<"B2">>, <<" ">>, <<"1">>),
       << Filler, <<"ZZZ">>, Filler >>,
       SRow(<<" ">>, <<"GIBSON">>, <<"1">>) >>

\* The descriptions extract_brand is called with directly.
Descriptions ==
    { <<>>, <<" ">>, <<"FENDER", " ", "STRATOCASTER">>,
      <<" ", "fender", " ", "STRATOCASTER", " ">>,
      <<"used", " ", "acme", " ", "custom">>, <<"USED">> }

MinCosts == {100, 150}

DaysLookbacks == {1, 2}

ApiKeys == {NoKey, "gsk_key"}

\* -------------------------------------------------------------------- state

VARIABLES
    min_cost, days_lookback, include_isi_serials,  \* CAPPSConverter's configuration
    api_key, api_provider, cache,                  \* BrandExtractor's fields
    disk,                  \* the contents of the cache file ~/.capps_brand_cache.json
    serials_readable,      \* whether the serials file can be opened and read
    purchases_readable,    \* whether the purchases file can be opened
    serials_file,          \* the rows of the serials file
    run_log,               \* what the run printed apart from its rows' messages
    output_path,           \* what convert_aimsi_to_xml returned
    now, ticks,            \* datetime.now(), and the hours it advanced
    pc,                    \* where convert_aimsi_to_xml stands
    serials_data, bulk_data, row_num,
    processed_count, skipped_count, filtered_count,
    last,                  \* the last purchase row read and what became of it
    block_rows,            \* for each block of bulk_data, the row that added it
    accepted_rows,         \* the rows counted as processed, in order
    last_call,             \* the last call of extract_brand and what it did
    calls,                 \* direct calls of extract_brand made
    first_answer           \* for each description resolved, its first answer

conv_vars ==
    << min_cost, days_lookback, include_isi_serials, api_key, api_provider, cache, disk,
       serials_readable, purchases_readable, serials_file, run_log, output_path, now, ticks, pc, serials_data, bulk_data,
       row_num, processed_count, skipped_count, filtered_count, last, block_rows, accepted_rows, last_call, calls, first_answer >>

VARIABLES
    up_pc,             \* where upload_to_capss stands
    up_return,         \* the value upload_to_capss returned
    up_cause,          \* which return statement it returned from
    up_printed,        \* the lines upload_to_capss printed
    polls,             \* the status polls made
    status_responses   \* the responses to the status polls, in order

upload_vars == << up_pc, up_return, up_cause, up_printed, polls, status_responses >>

VARIABLES
    convert_button,      \* the state of the GUI's Convert button
    dialog,              \* the modal dialogs the GUI shows, the one on top first
    conversion_threads,  \* the conversion threads alive
    upload_threads,      \* the upload threads alive
    conversion_result,   \* what the conversion thread left for the main thread
    upload_result,       \* what the upload thread left for the main thread
    conversion_check,    \* check_conversion_status is scheduled
    upload_check,        \* check_upload_status is scheduled
    inputs_valid,        \* the form's fields pass convert_files' validation
    credentials_set,     \* the CAPSS client id and secret are filled in
    started              \* the threads started so far

gui_vars ==
    << convert_button, dialog, conversion_threads, upload_threads, conversion_result,
       upload_result, conversion_check, upload_check, inputs_valid, credentials_set, started >>

VARIABLES
    main_pc,           \* where main stands: not run, arguments parsed, converter called
    args_output,       \* the value of -o/--output
    args_employee,     \* the value of -e/--employee
    employee_name,     \* convert_aimsi_to_xml's parameter employee_name
    client_id          \* convert_aimsi_to_xml's parameter client_id

main_vars == << main_pc, args_output, args_employee, employee_name, client_id >>

VARIABLES
    queue,             \* TextRedirector.queue, the oldest message first
    update_scheduled,  \* TextRedirector.update_scheduled
    pending,           \* the process_queue callbacks registered with after()
    text_widget,       \* the messages inserted into the text widget, in order
    written,           \* the non-empty messages written so far
    empties,           \* the empty messages written so far
    w_pc,              \* where the background thread stands in write()
    p_pc               \* where the main thread stands in process_queue()

redirector_vars ==
    << queue, update_scheduled, pending, text_widget, written, empties, w_pc, p_pc >>

vars == << conv_vars, upload_vars, gui_vars, main_vars, redirector_vars >>

\* No upload has been started.
UploadIdle ==
    /\ up_pc = "idle"
    /\ up_return = FALSE
    /\ up_cause = "none"
    /\ up_printed = <<>>
    /\ polls = 0
    /\ status_responses = <<>>

\* The redirector after its construction: nothing written, nothing scheduled.
RedirectorIdle ==
    /\ queue = <<>>
    /\ update_scheduled = FALSE
    /\ pending = 0
    /\ text_widget = <<>>
    /\ written = 0
    /\ empties = 0
    /\ w_pc = "idle"
    /\ p_pc = "idle"

\* The GUI after its construction: the button enabled, no dialog, no thread.
GuiIdle ==
    /\ convert_button = "normal"
    /\ dialog = <<>>
    /\ conversion_threads = 0
    /\ upload_threads = 0
    /\ conversion_result = "none"
    /\ upload_result = "none"
    /\ conversion_check = FALSE
    /\ upload_check = FALSE
    /\ inputs_valid = TRUE
    /\ credentials_set = TRUE
    /\ started = 0

self == [min_cost |-> min_cost, days_lookback |-> days_lookback,
         include_isi_serials |-> include_isi_serials, api_key |-> api_key,
         api_provider |-> api_provider, cache |-> cache, disk |-> disk]

\* convert_aimsi_to_xml has returned no path (yet).
NoPath == <<>>

NoRow == [row |-> <<>>, row_num |-> 0, now |-> 0, ret |-> FALSE, reason |-> "none",
          printed |-> <<>>]

NoCall == [description |-> <<>>, brand |-> <<>>, tier |-> "none", api_called |-> FALSE,
           patterns_called |-> FALSE, save_called |-> FALSE, written |-> FALSE,
           resp |-> NoResponse]

\* first_answer after a call: the first brand returned for each description.
Remember(fa, description, brand) ==
    IF description \in DOMAIN fa
    THEN fa
    ELSE [d \in DOMAIN fa \cup {description} |->
              IF d = description THEN brand ELSE fa[d]]

\* The state after CAPPSConverter.__init__: the configuration as passed, and the
\* brand extractor with the cache it loaded from the cache file.
ConverterConstructed(min_costs, lookbacks, isi, keys, disks, readable) ==
    /\ min_cost \in min_costs
    /\ days_lookback \in lookbacks
    /\ include_isi_serials \in isi
    /\ api_key \in keys
    /\ api_provider = "groq"
    /\ disk \in disks
    /\ \E load_ok \in BOOLEAN : cache = load_cache(disk, load_ok)
    /\ serials_readable \in readable
    /\ purchases_readable \in readable
    /\ run_log = <<>>
    /\ output_path = NoPath
    /\ now = 10 * 24 + 12
    /\ ticks = 0
    /\ pc = "constructed"
    /\ serials_data = <<>>
    /\ bulk_data = <<>>
    /\ row_num = 0
    /\ processed_count = 0
    /\ skipped_count = 0
    /\ filtered_count = 0
    /\ last = NoRow
    /\ block_rows = <<>>
    /\ accepted_rows = <<>>
    /\ last_call = NoCall
    /\ calls = 0
    /\ first_answer = <<>>
    /\ UploadIdle
    /\ GuiIdle
    /\ RedirectorIdle

\* convert_aimsi_to_xml's parameters at their defaults (line 790), main not run.
DefaultEmployee == <<"Store", " ", "Employee">>

MainIdle ==
    /\ main_pc = "none"
    /\ args_output = <<"capps_upload.xml">>
    /\ args_employee = DefaultEmployee
    /\ employee_name = DefaultEmployee
    /\ client_id = <<>>

\* A converter constructed by a caller that will call convert_aimsi_to_xml with
\* the default employee name.
InitConverter(min_costs, lookbacks, isi, keys, disks, readable) ==
    /\ ConverterConstructed(min_costs, lookbacks, isi, keys, disks, readable)
    /\ MainIdle

\* A converter of any configuration, without an API key, on an empty cache file,
\* and the serials file it will be run on.
Init ==
    /\ InitConverter(MinCosts, DaysLookbacks, BOOLEAN, {NoKey}, {EmptyCache}, {TRUE})
    /\ serials_file = SerialsFile

\* ------------------------------------------------------------------ actions

\* convert_aimsi_to_xml up to its loop: the serials index is loaded (from the rows
\* read before the failure when the serials file cannot be read), the document is
\* created, and the purchases file is opened, which raises out of the run when it
\* cannot be.
StartConvert ==
    /\ pc = "constructed"
    /\ \E failed_at \in (IF serials_readable THEN {0} ELSE SerialsFailures(serials_file)) :
          \E index \in { load_serials_data(serials_file, serials_readable, failed_at) } :
              /\ serials_data' = index
              /\ run_log' = << Line("Loading serials data", 0) >>
                                \o load_serials_printed(serials_readable, failed_at, index)
                                \o << Line("Processing purchases", 0), Line("Filters", 0) >>
    /\ pc' = IF purchases_readable THEN "reading" ELSE "raised"
    /\ bulk_data' = <<>>
    /\ processed_count' = 0
    /\ skipped_count' = 0
    /\ filtered_count' = 0
    /\ UNCHANGED << min_cost, days_lookback, include_isi_serials, api_key, api_provider,
                    serials_readable, purchases_readable, serials_file, output_path,
                    cache, disk, now, ticks, row_num, last, block_rows, accepted_rows,
                    last_call, calls, first_answer >>
    /\ UNCHANGED << upload_vars, gui_vars, main_vars, redirector_vars >>

\* The loop's body for one row (lines 819-831): what process_purchase_row did, or
\* the row skipped for having fewer than five columns.
loop_body(self_, row, serials_data_, bulk_data_, employee_name_, env) ==
    IF Len(row) >= 5
    THEN process_purchase_row(self_, row, serials_data_, bulk_data_, employee_name_, env)
    ELSE Rejected(self_, "short_row", <<"Skipping incomplete row with columns">>, bulk_data_)

\* The environments of one call: the remote API's answer (when there is a key to
\* call it with) and whether the cache file can be written.
Envs(self_, now_) ==
    { [now |-> now_, resp |-> resp, save_ok |-> save_ok] :
          resp \in (IF self_.api_key # NoKey THEN ApiResponses ELSE {NoResponse}),
          save_ok \in BOOLEAN }

\* The outcomes of the loop's body for a row: one per environment when the brand
\* extractor is called, and the single outcome when it is not.
OutcomesFrom(r0, self_, row, serials_data_, bulk_data_, employee_name_, now_) ==
    IF r0.brand_calls = <<>>
    THEN {r0}
    ELSE { loop_body(self_, row, serials_data_, bulk_data_, employee_name_, env) :
               env \in Envs(self_, now_) }

Outcomes(self_, row, serials_data_, bulk_data_, employee_name_, now_) ==
    OutcomesFrom(loop_body(self_, row, serials_data_, bulk_data_, employee_name_,
                           [now |-> now_, resp |-> NoResponse, save_ok |-> TRUE]),
                 self_, row, serials_data_, bulk_data_, employee_name_, now_)

\* The three counts printed after the loop (lines 833-835).
summary(processed_count_, filtered_count_, skipped_count_) ==
    << Line("Processed transactions meeting all criteria", processed_count_),
       Line("Filtered out transactions (date/amount/ISI serial)", filtered_count_),
       Line("Skipped rows due to errors or incomplete data", skipped_count_) >>

\* The path of the document written: capps_upload.xml in the current directory.
OutputXmlPath == <<"capps_upload.xml">>

\* counted with the filtered count taken outside the test of the row's length.
counted_unnested(row, was_processed) == [processed |-> IF Len(row) >= 5 /\ was_processed THEN 1 ELSE 0, filtered |-> IF ~was_processed THEN 1 ELSE 0, skipped |-> IF Len(row) < 5 THEN 1 ELSE 0]

\* What one row adds to the three counts (lines 820-828): a row of five fields or
\* more to processed_count when process_purchase_row returned True and to
\* filtered_count when it returned False, a shorter row to skipped_count.
counted(row, was_processed) == [processed |-> IF Len(row) >= 5 /\ was_processed THEN 1 ELSE 0, filtered |-> IF Len(row) >= 5 /\ ~was_processed THEN 1 ELSE 0, skipped |-> IF Len(row) < 5 THEN 1 ELSE 0]

\* One iteration of the loop over the purchases file (lines 818-831).
ReadRow ==
    /\ pc = "reading"
    /\ row_num < MaxRows
    /\ \E row \in PurchaseRows :
          \E r \in Outcomes(self, row, serials_data, bulk_data, employee_name, now) :
              /\ row_num' = row_num + 1
              /\ bulk_data' = r.bulk_data
              /\ cache' = r.cache
              /\ disk' = r.disk
              /\ processed_count' = processed_count + counted(row, r.ret).processed
              /\ filtered_count' = filtered_count + counted(row, r.ret).filtered
              /\ skipped_count' = skipped_count + counted(row, r.ret).skipped
              /\ last' = [row |-> row, row_num |-> row_num + 1, now |-> now, ret |-> r.ret,
                          reason |-> r.reason, printed |-> r.printed]
              /\ block_rows' = IF Len(r.bulk_data) > Len(bulk_data)
                               THEN Append(block_rows, [row_num |-> row_num + 1, row |-> row])
                               ELSE block_rows
              /\ accepted_rows' = IF Len(row) >= 5 /\ r.ret
                                  THEN Append(accepted_rows, row_num + 1)
                                  ELSE accepted_rows
              /\ IF r.brand_calls # <<>>
                 THEN /\ last_call' = r.brand_calls[1]
                      /\ first_answer' = Remember(first_answer,
                                                  r.brand_calls[1].description,
                                                  r.brand_calls[1].brand)
                 ELSE UNCHANGED << last_call, first_answer >>
    /\ UNCHANGED << min_cost, days_lookback, include_isi_serials, api_key, api_provider,
                    serials_readable, purchases_readable, serials_file, run_log,
                    output_path,
                    now, ticks, pc, serials_data, calls >>
    /\ UNCHANGED << upload_vars, gui_vars, main_vars, redirector_vars >>

\* The end of the purchases file: the counts are printed, the document is written
\* and its path returned.
EndOfFile ==
    /\ pc = "reading"
    /\ row_num = MaxRows
    /\ pc' = "done"
    /\ run_log' = run_log \o summary(processed_count, filtered_count, skipped_count)
                          \o << Line("XML saved", 0) >>
    /\ output_path' = OutputXmlPath
    /\ UNCHANGED << min_cost, days_lookback, include_isi_serials, api_key, api_provider,
                    serials_readable, purchases_readable, serials_file,
                    cache, disk, now, ticks, serials_data, bulk_data, row_num,
                    processed_count, skipped_count, filtered_count, last, block_rows,
                    accepted_rows, last_call, calls, first_answer >>
    /\ UNCHANGED << upload_vars, gui_vars, main_vars, redirector_vars >>

\* The wall clock advances an hour while the run has rows left to read.
Tick ==
    /\ pc = "reading"
    /\ row_num < MaxRows
    /\ ticks < MaxTicks
    /\ now' = now + 1
    /\ ticks' = ticks + 1
    /\ UNCHANGED << min_cost, days_lookback, include_isi_serials, api_key, api_provider,
                    serials_readable, purchases_readable, serials_file, run_log,
                    output_path,
                    cache, disk, pc, serials_data, bulk_data, row_num, processed_count,
                    skipped_count, filtered_count, last, block_rows, accepted_rows,
                    last_call, calls, first_answer >>
    /\ UNCHANGED << upload_vars, gui_vars, main_vars, redirector_vars >>

Next == StartConvert \/ ReadRow \/ EndOfFile \/ Tick

Spec == Init /\ [][Next]_vars

\* A call of extract_brand on the converter's brand extractor.
ExtractBrandCall ==
    /\ calls < MaxCalls
    /\ \E description \in Descriptions,
          resp \in (IF api_key # NoKey THEN ApiResponses ELSE {NoResponse}),
          save_ok \in BOOLEAN :
          \E b \in { extract_brand(description, cache, disk, api_key, api_provider,
                                   resp, save_ok) } :
              /\ cache' = b.cache
              /\ disk' = b.disk
              /\ last_call' = CallTrace(description, b, resp)
              /\ first_answer' = Remember(first_answer, description, b.brand)
    /\ calls' = calls + 1
    /\ UNCHANGED << min_cost, days_lookback, include_isi_serials, api_key, api_provider,
                    serials_readable, purchases_readable, serials_file, run_log,
                    output_path,
                    now, ticks, pc, serials_data, bulk_data, row_num, processed_count,
                    skipped_count, filtered_count, last, block_rows, accepted_rows >>
    /\ UNCHANGED << upload_vars, gui_vars, main_vars, redirector_vars >>

\* The cache files a previous run may have left.
DiskCaches ==
    { EmptyCache,
      (<<"FENDER", " ", "STRATOCASTER">> :> <<"SQUIER">>) }

\* A converter of the default configuration, with or without an API key, on any
\* of the cache files.
InitBrand ==
    /\ InitConverter({100}, {2}, {FALSE}, ApiKeys, DiskCaches, {TRUE})
    /\ serials_file = SerialsFile

NextBrand == ExtractBrandCall

SpecBrand == InitBrand /\ [][NextBrand]_vars

\* The rows a serials file may hold: those of SerialsFile, a row of ten columns
\* (one short of being indexed) and a row of twelve.
SerialRows ==
    { SerialsFile[i] : i \in 1..Len(SerialsFile) }
    \cup { SubSeq(SRow(<<"B2">>, <<"GIBSON">>, <<"1">>), 1, 10),
           SRow(<<"B2">>, <<"GIBSON", " ">>, <<"2">>) \o <<Filler>> }

\* The serials files of at most MaxSerialRows rows.
SerialsFiles == UNION { [1..n -> SerialRows] : n \in 0..MaxSerialRows }

\* A converter of the default configuration about to be run on any serials file.
InitSerials ==
    /\ InitConverter({100}, {2}, {FALSE}, {NoKey}, {EmptyCache}, {TRUE})
    /\ serials_file \in SerialsFiles

\* The run up to the loading of the serials index.
NextSerials == StartConvert

SpecSerials == InitSerials /\ [][NextSerials]_vars

\* A converter of the default configuration about to be run on input files that
\* can or cannot be read.
InitFiles ==
    /\ InitConverter({100}, {2}, {FALSE}, {NoKey}, {EmptyCache}, BOOLEAN)
    /\ serials_file = SerialsFile

SpecFiles == InitFiles /\ [][Next]_vars

\* Descriptions with color names: two names of which the later in the text is
\* the earlier in color_map, in both orders; no color name; a color name followed
\* by a comma; two color names joined by a slash; a color name in mixed text.
ColorDescriptions ==
    { <<"Fender", " ", "navy", " ", "cream">>,
      <<"cream", " ", "navy">>,
      <<"FENDER", " ", "STRATOCASTER">>,
      <<"GIBSON", " ", "black", ",", " ", "used">>,
      <<"GIBSON", " ", "RED", "/", "WHITE">>,
      <<"used", " ", "TEAL", " ", "strat">> }

\* A converter of the default configuration about to be run on a serials file
\* that describes the serial ABC123 with one of the descriptions.
InitColor ==
    /\ InitConverter({100}, {2}, {FALSE}, {NoKey}, {EmptyCache}, {TRUE})
    /\ \E d \in ColorDescriptions : serials_file = << SRow(<<"ABC123">>, d, <<"3">>) >>

SpecColor == InitColor /\ [][Next]_vars


\* ------------------------------------------------------------ remote upload

\* range(10): the number of times the status link is polled at most (line 769).
MaxStatusPolls == 10

\* A response of the CAPSS server: an HTTP status with the JSON body it carries,
\* named by what the code reads in it, or the request raising (no connection).
Http(status, body) == [kind |-> "http", status |-> status, body |-> body]
RequestRaised == [kind |-> "raised", status |-> 0, body |-> "none"]

\* The answers to the token request: a token, a 200 without access_token, a
\* refusal of the credentials.
TokenResponses ==
    { Http(200, "access_token"), Http(200, "malformed"), Http(401, "none"), RequestRaised }

\* The answers to the upload: accepted with a submission id and a status link,
\* accepted with a submission id and no link, accepted with a body that has no
\* submission id, rejected.
UploadResponses ==
    { Http(202, "submission and link"), Http(202, "submission"), Http(202, "malformed"),
      Http(400, "none"), Http(200, "none"), RequestRaised }

\* The answers to a status poll: processing complete, still processing (200 or
\* 202), a 200 whose body has no status, another status code.
StatusResponses ==
    { Http(200, "complete"), Http(200, "processing"), Http(202, "none"),
      Http(200, "malformed"), Http(500, "none"), Http(404, "none"), RequestRaised }

\* upload_to_capss returns value from the return statement named by cause, having
\* printed the line.
UploadReturns(value, cause, line) ==
    /\ up_pc' = "returned"
    /\ up_return' = value
    /\ up_cause' = cause
    /\ up_printed' = Append(up_printed, line)

\* An exception inside upload_to_capss: caught by the handler of lines 786-788.
UploadRaises == UploadReturns(FALSE, "exception", "CAPSS upload error")

\* Lines 738-751: the token request.
RequestToken ==
    /\ up_pc = "idle"
    /\ \E token_response \in TokenResponses :
          IF token_response.kind = "raised"
          THEN UploadRaises
          ELSE IF token_response.status # 200
          THEN UploadReturns(FALSE, "token refused", "Failed to get token")
          ELSE IF token_response.body # "access_token"
          THEN UploadRaises
          ELSE /\ up_pc' = "upload"
               /\ up_printed' = Append(up_printed, "Token obtained successfully")
               /\ UNCHANGED << up_return, up_cause >>
    /\ UNCHANGED << polls, status_responses >>
    /\ UNCHANGED << conv_vars, gui_vars, main_vars, redirector_vars >>

\* Lines 757-767 and 780-784: the document is posted; an accepted upload with a
\* status link goes on to poll it, one without a link returns True.
UploadFile ==
    /\ up_pc = "upload"
    /\ \E file_ok \in BOOLEAN, upload_response \in UploadResponses :
          IF ~file_ok \/ upload_response.kind = "raised"
          THEN UploadRaises
          ELSE IF upload_response.status # 202
          THEN UploadReturns(FALSE, "upload rejected", "Upload failed")
          ELSE IF upload_response.body = "malformed"
          THEN UploadRaises
          ELSE IF upload_response.body = "submission"
          THEN UploadReturns(TRUE, "no status link", "Upload accepted")
          ELSE /\ up_pc' = "polling"
               /\ up_printed' = Append(up_printed, "Upload accepted")
               /\ UNCHANGED << up_return, up_cause >>
    /\ UNCHANGED << polls, status_responses >>
    /\ UNCHANGED << conv_vars, gui_vars, main_vars, redirector_vars >>

\* keeps_polling going on after a 200 whatever its status says.
keeps_polling_on_200(status_response) ==
    /\ status_response.kind = "http"
    /\ status_response.status \in {200, 202}

\* The response lets the polling loop go on to its next iteration: a 200 whose
\* status is not complete, or a 202.
keeps_polling(status_response) ==
    /\ status_response.kind = "http"
    /\ \/ status_response.status = 200 /\ status_response.body = "processing"
       \/ status_response.status = 202

\* One iteration of the polling loop (lines 769-779).
PollStatus ==
    /\ up_pc = "polling"
    /\ polls < MaxStatusPolls
    /\ \E status_response \in StatusResponses :
          /\ polls' = polls + 1
          /\ status_responses' = Append(status_responses, status_response)
          /\ IF keeps_polling(status_response)
             THEN UNCHANGED << up_pc, up_return, up_cause, up_printed >>
             ELSE IF status_response.kind = "raised"
             THEN UploadRaises
             ELSE IF status_response.status = 200
             THEN IF status_response.body = "complete"
                  THEN UploadReturns(TRUE, "complete", "Processing complete!")
                  ELSE UploadRaises
             ELSE UploadReturns(FALSE, "status check failed", "Status check failed")
    /\ UNCHANGED << conv_vars, gui_vars, main_vars, redirector_vars >>

\* The loop has made its last poll without an answer that ends it: line 780.
PollsExhausted ==
    /\ up_pc = "polling"
    /\ polls = MaxStatusPolls
    /\ up_pc' = "returned"
    /\ up_return' = TRUE
    /\ up_cause' = "polls exhausted"
    /\ UNCHANGED << up_printed, polls, status_responses >>
    /\ UNCHANGED << conv_vars, gui_vars, main_vars, redirector_vars >>

\* upload_to_capss called on a converter of the default configuration.
InitUpload ==
    /\ InitConverter({100}, {5}, {FALSE}, {NoKey}, {EmptyCache}, {TRUE})
    /\ serials_file = SerialsFile

NextUpload == RequestToken \/ UploadFile \/ PollStatus \/ PollsExhausted

SpecUpload == InitUpload /\ [][NextUpload]_vars

\* upload_to_capss runs on: each of its requests is answered or raises.
SpecUploadLive == SpecUpload /\ WF_vars(NextUpload)

\* ------------------------------------------------------------------ the GUI

\* can_click with the main window answering while a dialog is open.
can_click_through_dialog(convert_button_, dialog_) == convert_button_ = "normal"

\* A click on the Convert button reaches convert_files: the button is enabled and
\* no modal dialog holds the grab (show_post_conversion_dialog's grab_set, the
\* message boxes).
can_click(convert_button_, dialog_) == convert_button_ = "normal" /\ dialog_ = <<>>

\* The user edits the form's fields in the main window.
EditInputs ==
    /\ dialog = <<>>
    /\ \E valid \in BOOLEAN, creds \in BOOLEAN :
          /\ inputs_valid' = valid
          /\ credentials_set' = creds
          /\ (valid # inputs_valid \/ creds # credentials_set)
    /\ UNCHANGED << convert_button, dialog, conversion_threads, upload_threads,
                    conversion_result, upload_result, conversion_check, upload_check,
                    started >>
    /\ UNCHANGED << conv_vars, upload_vars, main_vars, redirector_vars >>

\* convert_files: a failed validation shows an error box; otherwise the button is
\* disabled, the conversion thread started and check_conversion_status scheduled.
ClickConvert ==
    /\ can_click(convert_button, dialog)
    /\ IF ~inputs_valid
       THEN /\ dialog' = << "validation_error" >> \o dialog
            /\ UNCHANGED << convert_button, conversion_threads, conversion_check, started >>
       ELSE /\ started < MaxStarts
            /\ convert_button' = "disabled"
            /\ conversion_threads' = conversion_threads + 1
            /\ started' = started + 1
            /\ conversion_check' = TRUE
            /\ UNCHANGED dialog
    /\ UNCHANGED << upload_threads, conversion_result, upload_result, upload_check,
                    inputs_valid, credentials_set >>
    /\ UNCHANGED << conv_vars, upload_vars, main_vars, redirector_vars >>

\* The text of an exception raised after the purchases file was read (the document
\* could not be written).
WriteError == "Permission denied"

\* conversion_outcomes with the failure to open the purchases file not reaching
\* the result.
conversion_outcomes_success(purchases_readable_) == {"success"}

\* What run_conversion_thread can store: convert_aimsi_to_xml opens the purchases
\* file outside any try, so a file that cannot be opened raises out of it and the
\* thread's except stores the failure with str(e); a run that got past the open
\* returns the path, or raises later.
conversion_outcomes(purchases_readable_) == IF purchases_readable_ THEN {"success", WriteError} ELSE {OpenError}

\* run_conversion_thread ends, having stored its result.
ConversionThreadEnds ==
    /\ conversion_threads > 0
    /\ conversion_threads' = conversion_threads - 1
    /\ conversion_result' \in conversion_outcomes(purchases_readable)
    /\ UNCHANGED << convert_button, dialog, upload_threads, upload_result,
                    conversion_check, upload_check, inputs_valid, credentials_set,
                    started >>
    /\ UNCHANGED << conv_vars, upload_vars, main_vars, redirector_vars >>

\* is_alive with the thread taken for finished as soon as it was started.
is_alive_never(threads) == FALSE

\* Thread.is_alive() as check_conversion_status and check_upload_status ask it
\* (lines 868 and 753): the thread was started and has not yet ended.
is_alive(threads) == threads > 0

\* check_conversion_status fires: rescheduled while the thread is alive, and
\* otherwise on_conversion_complete enables the button and shows the
\* post-conversion dialog or the error box.
CheckConversionStatus ==
    /\ conversion_check
    /\ IF is_alive(conversion_threads)
       THEN UNCHANGED << convert_button, dialog, conversion_check >>
       ELSE /\ conversion_check' = FALSE
            /\ convert_button' = "normal"
            /\ dialog' = << IF conversion_result = "success"
                            THEN "post_conversion" ELSE "conversion_error" >> \o dialog
    /\ UNCHANGED << conversion_threads, upload_threads, conversion_result, upload_result,
                    upload_check, inputs_valid, credentials_set, started >>
    /\ UNCHANGED << conv_vars, upload_vars, main_vars, redirector_vars >>

\* upload_to_capss_gui, called with the dialogs left open: without credentials an
\* error box; otherwise the button is disabled, the upload thread started and
\* check_upload_status scheduled, and on_conversion_complete, which called it,
\* clears the conversion result and ends.
upload_to_capss_gui(dialog_) ==
    IF ~credentials_set
    THEN /\ dialog' = << "missing_credentials" >> \o dialog_
         /\ UNCHANGED << convert_button, upload_threads, upload_check, started,
                         conversion_result >>
    ELSE /\ started < MaxStarts
         /\ convert_button' = "disabled"
         /\ upload_threads' = upload_threads + 1
         /\ started' = started + 1
         /\ upload_check' = TRUE
         /\ dialog' = dialog_
         /\ conversion_result' = "none"

\* The user answers the post-conversion dialog: Inspect File (the file is opened,
\* or an error box tells it could not be, then the upload is offered), Upload Now,
\* or the dialog closed.
AnswerPostConversion ==
    /\ dialog # <<>>
    /\ Head(dialog) = "post_conversion"
    /\ \E choice \in {"inspect", "upload", "closed"}, opened \in BOOLEAN :
          CASE choice = "inspect" ->
                   /\ dialog' = << IF opened THEN "ask_upload" ELSE "open_error" >>
                                    \o Tail(dialog)
                   /\ UNCHANGED << convert_button, upload_threads, upload_check, started,
                                   conversion_result >>
            [] choice = "upload" -> upload_to_capss_gui(Tail(dialog))
            [] choice = "closed" ->
                   /\ dialog' = Tail(dialog)
                   /\ conversion_result' = "none"
                   /\ UNCHANGED << convert_button, upload_threads, upload_check, started >>
    /\ UNCHANGED << conversion_threads, upload_result, conversion_check, inputs_valid,
                    credentials_set >>
    /\ UNCHANGED << conv_vars, upload_vars, main_vars, redirector_vars >>

\* The user answers inspect_and_upload's question.
AnswerAskUpload ==
    /\ dialog # <<>>
    /\ Head(dialog) = "ask_upload"
    /\ \E upload_now \in BOOLEAN :
          IF upload_now
          THEN upload_to_capss_gui(Tail(dialog))
          ELSE /\ dialog' = Tail(dialog)
               /\ conversion_result' = "none"
               /\ UNCHANGED << convert_button, upload_threads, upload_check, started >>
    /\ UNCHANGED << conversion_threads, upload_result, conversion_check, inputs_valid,
                    credentials_set >>
    /\ UNCHANGED << conv_vars, upload_vars, main_vars, redirector_vars >>

\* The message boxes, which only wait to be dismissed.
MessageBoxes ==
    { "validation_error", "conversion_error", "open_error", "missing_credentials",
      "upload_success", "upload_failed" }

\* The user dismisses a message box; the handler that showed it runs to its end
\* and clears the result it handled.
DismissMessage ==
    /\ dialog # <<>>
    /\ Head(dialog) \in MessageBoxes
    /\ dialog' = Tail(dialog)
    /\ conversion_result' =
           IF Head(dialog) \in {"conversion_error", "open_error", "missing_credentials"}
           THEN "none" ELSE conversion_result
    /\ upload_result' =
           IF Head(dialog) \in {"upload_success", "upload_failed"}
           THEN "none" ELSE upload_result
    /\ UNCHANGED << convert_button, conversion_threads, upload_threads, conversion_check,
                    upload_check, inputs_valid, credentials_set, started >>
    /\ UNCHANGED << conv_vars, upload_vars, main_vars, redirector_vars >>

\* run_upload_thread ends, having stored its result.
UploadThreadEnds ==
    /\ upload_threads > 0
    /\ upload_threads' = upload_threads - 1
    /\ upload_result' \in {"success", "failed"}
    /\ UNCHANGED << convert_button, dialog, conversion_threads, conversion_result,
                    conversion_check, upload_check, inputs_valid, credentials_set,
                    started >>
    /\ UNCHANGED << conv_vars, upload_vars, main_vars, redirector_vars >>

\* check_upload_status fires: rescheduled while the thread is alive, and otherwise
\* on_upload_complete enables the button and shows the outcome.
CheckUploadStatus ==
    /\ upload_check
    /\ IF is_alive(upload_threads)
       THEN UNCHANGED << convert_button, dialog, upload_check >>
       ELSE /\ upload_check' = FALSE
            /\ convert_button' = "normal"
            /\ dialog' = << IF upload_result = "success"
                            THEN "upload_success" ELSE "upload_failed" >> \o dialog
    /\ UNCHANGED << conversion_threads, upload_threads, conversion_result, upload_result,
                    conversion_check, inputs_valid, credentials_set, started >>
    /\ UNCHANGED << conv_vars, upload_vars, main_vars, redirector_vars >>

\* The GUI over a converter of the default configuration, with a purchases file
\* that exists and can or cannot be opened.
InitGui ==
    /\ InitConverter({100}, {5}, {FALSE}, {NoKey}, {EmptyCache}, BOOLEAN)
    /\ serials_file = SerialsFile

NextGui ==
    \/ EditInputs
    \/ ClickConvert
    \/ ConversionThreadEnds
    \/ CheckConversionStatus
    \/ AnswerPostConversion
    \/ AnswerAskUpload
    \/ DismissMessage
    \/ UploadThreadEnds
    \/ CheckUploadStatus

SpecGui == InitGui /\ [][NextGui]_vars

\* The main loop runs the callbacks registered with after(): a status check that
\* finds its thread finished is eventually run.
SpecGuiLive == SpecGui /\ WF_vars(CheckConversionStatus) /\ WF_vars(CheckUploadStatus)

\* ------------------------------------------------------------------- main

\* The values -o/--output and -e/--employee may have: the defaults and one
\* given on the command line.
OutputArgs == { <<"capps_upload.xml">>, <<"out", "/", "october.xml">> }

EmployeeArgs == { DefaultEmployee, <<"Pat", " ", "Lee">> }

\* main in aimsi mode (lines 950-961): the converter is created and
\* convert_aimsi_to_xml called with purchases_file, serials_file, args.output and
\* args.employee as its positional arguments, which binds args.output to the
\* parameter employee_name and args.employee to client_id.
MainCall ==
    /\ main_pc = "parsed"
    /\ main_pc' = "called"
    /\ employee_name' = args_output
    /\ client_id' = args_employee
    /\ UNCHANGED << args_output, args_employee >>
    /\ UNCHANGED << conv_vars, upload_vars, gui_vars, redirector_vars >>

\* convert_aimsi_to_xml running as called by main.
MainRun == main_pc = "called" /\ Next

\* main with its arguments parsed and a converter of the default configuration.
InitMain ==
    /\ ConverterConstructed({100}, {2}, {FALSE}, {NoKey}, {EmptyCache}, {TRUE})
    /\ serials_file = SerialsFile
    /\ main_pc = "parsed"
    /\ args_output \in OutputArgs
    /\ args_employee \in EmployeeArgs
    /\ employee_name = DefaultEmployee
    /\ client_id = <<>>

NextMain == MainCall \/ MainRun

SpecMain == InitMain /\ [][NextMain]_vars

\* ------------------------------------------------------------ TextRedirector

\* write(message) on the background thread, first part (lines 36-40): an empty
\* message is ignored; any other is put on the queue, and schedule_update is
\* entered. Messages are numbered in the order written.
Write ==
    /\ w_pc = "idle"
    /\ \E message \in {"", "text"} :
          IF message = ""
          THEN /\ empties < MaxMessages
               /\ empties' = empties + 1
               /\ UNCHANGED << queue, written, w_pc >>
          ELSE /\ written < MaxMessages
               /\ written' = written + 1
               /\ queue' = Append(queue, written + 1)
               /\ w_pc' = "test"
               /\ UNCHANGED empties
    /\ UNCHANGED << update_scheduled, pending, text_widget, p_pc >>
    /\ UNCHANGED << conv_vars, upload_vars, gui_vars, main_vars >>

\* schedule_update with its test inverted: it registers the callback only when the
\* flag says one is already registered.
schedules_when_set(update_scheduled_) == update_scheduled_

\* schedule_update read update_scheduled (line 48): whether it goes on to set the
\* flag and register the callback.
schedules(update_scheduled_) == ~update_scheduled_

\* schedule_update on the background thread, line 48: the test of the flag.
WriterTests ==
    /\ w_pc = "test"
    /\ w_pc' = IF schedules(update_scheduled) THEN "set" ELSE "idle"
    /\ UNCHANGED << queue, update_scheduled, pending, text_widget, written, empties, p_pc >>
    /\ UNCHANGED << conv_vars, upload_vars, gui_vars, main_vars >>

\* Line 49: the flag is set.
WriterSets ==
    /\ w_pc = "set"
    /\ update_scheduled' = TRUE
    /\ w_pc' = "after"
    /\ UNCHANGED << queue, pending, text_widget, written, empties, p_pc >>
    /\ UNCHANGED << conv_vars, upload_vars, gui_vars, main_vars >>

\* Line 50: process_queue is registered with after().
WriterRegisters ==
    /\ w_pc = "after"
    /\ pending' = pending + 1
    /\ w_pc' = "idle"
    /\ UNCHANGED << queue, update_scheduled, text_widget, written, empties, p_pc >>
    /\ UNCHANGED << conv_vars, upload_vars, gui_vars, main_vars >>

\* The main loop runs a registered process_queue, which clears the flag (line 54).
ProcessQueueStarts ==
    /\ p_pc = "idle"
    /\ pending > 0
    /\ pending' = pending - 1
    /\ update_scheduled' = FALSE
    /\ p_pc' = "drain"
    /\ UNCHANGED << queue, text_widget, written, empties, w_pc >>
    /\ UNCHANGED << conv_vars, upload_vars, gui_vars, main_vars >>

\* One turn of the loop of lines 55-63: the oldest message is taken from the queue
\* and inserted at the end of the text widget, or the loop ends on an empty queue.
ProcessQueueDrains ==
    /\ p_pc = "drain"
    /\ IF queue # <<>>
       THEN /\ text_widget' = Append(text_widget, Head(queue))
            /\ queue' = Tail(queue)
            /\ UNCHANGED p_pc
       ELSE /\ p_pc' = "check"
            /\ UNCHANGED << queue, text_widget >>
    /\ UNCHANGED << update_scheduled, pending, written, empties, w_pc >>
    /\ UNCHANGED << conv_vars, upload_vars, gui_vars, main_vars >>

\* Lines 66-67 with schedule_update's test: messages that came after the loop make
\* process_queue schedule itself again, unless the flag is already set.
ProcessQueueChecks ==
    /\ p_pc = "check"
    /\ p_pc' = IF queue # <<>> /\ schedules(update_scheduled) THEN "set" ELSE "idle"
    /\ UNCHANGED << queue, update_scheduled, pending, text_widget, written, empties, w_pc >>
    /\ UNCHANGED << conv_vars, upload_vars, gui_vars, main_vars >>

\* schedule_update on the main thread, line 49.
ProcessQueueSets ==
    /\ p_pc = "set"
    /\ update_scheduled' = TRUE
    /\ p_pc' = "after"
    /\ UNCHANGED << queue, pending, text_widget, written, empties, w_pc >>
    /\ UNCHANGED << conv_vars, upload_vars, gui_vars, main_vars >>

\* schedule_update on the main thread, line 50.
ProcessQueueRegisters ==
    /\ p_pc = "after"
    /\ pending' = pending + 1
    /\ p_pc' = "idle"
    /\ UNCHANGED << queue, update_scheduled, text_widget, written, empties, w_pc >>
    /\ UNCHANGED << conv_vars, upload_vars, gui_vars, main_vars >>

\* A redirector in the GUI of a converter of the default configuration.
InitRedirector ==
    /\ InitConverter({100}, {5}, {FALSE}, {NoKey}, {EmptyCache}, {TRUE})
    /\ serials_file = SerialsFile

\* What the main thread does; the other steps are the background thread's.
MainLoopStep ==
    \/ ProcessQueueStarts
    \/ ProcessQueueDrains
    \/ ProcessQueueChecks
    \/ ProcessQueueSets
    \/ ProcessQueueRegisters

NextRedirector == Write \/ WriterTests \/ WriterSets \/ WriterRegisters \/ MainLoopStep

\* The main loop keeps running its callbacks, and the background thread, once in
\* write(), is scheduled until it leaves it.
SpecRedirectorLive ==
    /\ InitRedirector
    /\ [][NextRedirector]_vars
    /\ WF_vars(MainLoopStep)
    /\ WF_vars(WriterTests \/ WriterSets \/ WriterRegisters)

\* --------------------------------------------------------------- properties
\*
\* The properties below are stated on the row the loop read last (last), on the
\* blocks of the document with the rows that added them (bulk_data, block_rows),
\* and on the last call of extract_brand (last_call).  What a row should meet is
\* written out here from the row's columns, apart from the row filter above.

\* process_purchase_row was called for the last row read.
RowRead == last.row_num > 0 /\ Len(last.row) >= 5

\* The last row read added a block to the document.
LastAdded == \E i \in 1..Len(block_rows) : block_rows[i].row_num = last.row_num

\* The last row read was rejected: False returned and no block added.
LastRejected == ~last.ret /\ ~LastAdded

\* The row's timestamp, and its age in whole days at the time t.
Stamp(row) == strptime(row[1])

AgeDays(row, t) == (t - Stamp(row).dt) \div 24

RecencyPasses(row, t) ==
    Stamp(row).ok /\ AgeDays(row, t) >= 0 /\ AgeDays(row, t) <= days_lookback

AmountBelow(row) == parse_amount(row[3]).ok /\ parse_amount(row[3]).value < min_cost

AmountPasses(row) == parse_amount(row[3]).ok /\ parse_amount(row[3]).value >= min_cost

\* The row's serial number as process_purchase_row reads it: trimmed, and with
\* surrounding double quotes removed.
SerialOf(row) == strip_quotes(strip(row[5]))

\* The trimmed serial number starts with ISI in any letter case.
IsIsi(row) == startswith(upper(strip(row[5])), <<"ISI">>)

\* The serial number the exclusion is decided on starts with ISI.
IsiSerial(row) == startswith(upper(SerialOf(row)), <<"ISI">>)

Joined(row) == SerialOf(row) # <<>> /\ SerialOf(row) \in DOMAIN serials_data

Described(row) == Joined(row) /\ strip(serials_data[SerialOf(row)].description) # <<>>

\* The row passes the recency and amount checks and has a described index entry.
OtherwiseValid(row, t) == RecencyPasses(row, t) /\ AmountPasses(row) /\ Described(row)

\* C1: a purchase row of at least five fields whose amount parses to a value below
\* min_cost is rejected (False returned, no block added), whatever its timestamp,
\* category and serial number are and whatever the serials index holds.
C1_BelowMinCostRejected == (RowRead /\ AmountBelow(last.row)) => LastRejected

\* A row rejected for its amount alone: recent, joined and described.
C1_Witness ==
    /\ RowRead
    /\ AmountBelow(last.row)
    /\ RecencyPasses(last.row, last.now)
    /\ Described(last.row)
    /\ last.reason = "below_min_cost"

\* C2: a row whose trimmed serial number starts with ISI in any letter case is
\* rejected when include_isi_serials is off; when it is on, the row is accepted
\* provided it passes the recency and amount checks and its serial number is a key
\* of the serials index with a non-empty description, and the very row rejected
\* with the switch off is accepted by a converter that differs in the switch only.
C2_IsiExclusion ==
    (RowRead /\ IsIsi(last.row)) =>
        /\ ~include_isi_serials => LastRejected
        /\ OtherwiseValid(last.row, last.now) =>
              /\ include_isi_serials => (last.ret /\ LastAdded)
              /\ \A env \in Envs(self, last.now) :
                     process_purchase_row([self EXCEPT !.include_isi_serials = TRUE],
                                          last.row, serials_data, <<>>, DefaultEmployee,
                                          env).ret

\* An ISI row with a described index entry, rejected only for the switch.
C2_Witness ==
    /\ RowRead
    /\ IsIsi(last.row)
    /\ ~include_isi_serials
    /\ OtherwiseValid(last.row, last.now)
    /\ last.reason = "isi"

\* The six checks by number, in the order shape, recency, amount threshold, ISI
\* exclusion, join, description: the first one the row fails, or 7 when it fails
\* none.
FirstFailing(row, t) ==
    IF Len(row) < 5 THEN 1
    ELSE IF ~RecencyPasses(row, t) THEN 2
    ELSE IF ~AmountPasses(row) THEN 3
    ELSE IF ~include_isi_serials /\ IsiSerial(row) THEN 4
    ELSE IF ~Joined(row) THEN 5
    ELSE IF ~Described(row) THEN 6
    ELSE 7

\* The check a rejection belongs to.
CheckOfReason(reason) ==
    CASE reason \in {"incomplete", "short_row"} -> 1
      [] reason \in {"too_old", "future", "bad_date"} -> 2
      [] reason \in {"below_min_cost", "bad_amount"} -> 3
      [] reason = "isi" -> 4
      [] reason = "no_match" -> 5
      [] reason = "no_description" -> 6
      [] reason = "accepted" -> 7

\* The check a printed diagnostic belongs to.
CheckOfMessage(message) ==
    CASE message \in {"Skipping incomplete row", "Skipping incomplete row with columns"} -> 1
      [] message \in {"Warning: Transaction has future date",
                      "Error parsing date for transaction"} -> 2
      [] message = "Warning: Could not parse amount" -> 3

\* C3: the six checks are made in the order shape, recency, amount threshold, ISI
\* exclusion, join, description, and the first failing one decides: a row's
\* rejection is that of the earliest check it fails, and every diagnostic printed
\* for the row is that check's, none a later check's.
C3_FirstFailingCheckDecides ==
    last.row_num > 0 =>
        /\ CheckOfReason(last.reason) = FirstFailing(last.row, last.now)
        /\ \A i \in 1..Len(last.printed) :
               CheckOfMessage(last.printed[i]) = FirstFailing(last.row, last.now)

\* An ISI serial that is not in the index, rejected by the ISI exclusion.
C3_Witness ==
    /\ RowRead
    /\ IsIsi(last.row)
    /\ ~Joined(last.row)
    /\ RecencyPasses(last.row, last.now)
    /\ AmountPasses(last.row)
    /\ last.reason = "isi"

\* C4: a row whose age in whole days equals days_lookback passes the recency
\* check, and a row whose age equals days_lookback + 1 is rejected as too old.
C4_LookbackBoundary ==
    (RowRead /\ Stamp(last.row).ok) =>
        /\ AgeDays(last.row, last.now) = days_lookback =>
               /\ last.reason \notin {"too_old", "future", "bad_date"}
               /\ (AmountPasses(last.row) /\ Described(last.row)
                   /\ (include_isi_serials \/ ~IsiSerial(last.row))) => last.ret
        /\ AgeDays(last.row, last.now) = days_lookback + 1 =>
               LastRejected /\ last.reason = "too_old"

\* A row exactly days_lookback days old, accepted.
C4_Witness ==
    /\ RowRead
    /\ Stamp(last.row).ok
    /\ AgeDays(last.row, last.now) = days_lookback
    /\ last.ret
    /\ LastAdded

FutureWarning == "Warning: Transaction has future date"

\* C5: a row whose timestamp lies in the future is rejected with the future-date
\* warning, which no other row gets; a row whose timestamp does not parse is
\* rejected; and every block of the document carries the time parsed from the
\* timestamp of the row that added it.
C5_FutureAndUnparsedRejected ==
    /\ RowRead =>
          /\ (Stamp(last.row).ok /\ Stamp(last.row).dt > last.now) =>
                 LastRejected /\ last.printed = <<FutureWarning>>
          /\ ~(Stamp(last.row).ok /\ Stamp(last.row).dt > last.now) =>
                 \A i \in 1..Len(last.printed) : last.printed[i] # FutureWarning
          /\ ~Stamp(last.row).ok => LastRejected
    /\ \A i \in 1..Len(bulk_data) :
          /\ Stamp(block_rows[i].row).ok
          /\ bulk_data[i].transactionTime = strftime(Stamp(block_rows[i].row).dt)

\* A future-dated row that every other check would pass, rejected with the warning.
C5_Witness ==
    /\ RowRead
    /\ Stamp(last.row).ok
    /\ Stamp(last.row).dt > last.now
    /\ AmountPasses(last.row)
    /\ Described(last.row)
    /\ last.printed = <<FutureWarning>>
    /\ ~last.ret

\* C6: a row is accepted only if its serial number is non-empty, is a key of the
\* serials index, and the indexed description is non-empty after trimming; a row
\* whose serial number is in the index with an empty description is rejected.
C6_AcceptedOnlyIfDescribed ==
    /\ (RowRead /\ last.ret) => Described(last.row)
    /\ (RowRead /\ Joined(last.row) /\ ~Described(last.row)) => LastRejected
    /\ \A i \in 1..Len(block_rows) : Described(block_rows[i].row)

\* A row whose serial number is in the index with a blank description, rejected
\* for the description alone.
C6_Witness ==
    /\ RowRead
    /\ Joined(last.row)
    /\ ~Described(last.row)
    /\ RecencyPasses(last.row, last.now)
    /\ AmountPasses(last.row)
    /\ last.reason = "no_description"

\* The block carries the columns of the row: its time, amount and serial number.
BlockOfRow(block, row) ==
    /\ block.transactionTime = strftime(Stamp(row).dt)
    /\ block.item.amount = strip(row[3])
    /\ block.item.serialNumber = <<SerialOf(row)>>

PlaceholderField(e) ==
    IF e.tag \in {"dateOfBirth", "noFinger"}
    THEN e.nil /\ e.text = "" /\ e.children = <<>>
    ELSE /\ ~e.nil
         /\ IF e.children = <<>>
            THEN e.text = "on file"
            ELSE \A m \in 1..Len(e.children) :
                     /\ ~e.children[m].nil
                     /\ e.children[m].text = "on file"
                     /\ e.children[m].children = <<>>

\* C8: the customer element of every block is the same fixed content: every field
\* holds the text "on file" except dateOfBirth and noFinger, which are nil, whatever
\* the row, the serials index and the configuration are.
C8_CustomerIsPlaceholder ==
    \A i \in 1..Len(bulk_data) :
        /\ \A k \in 1..Len(bulk_data[i].customer) :
               PlaceholderField(bulk_data[i].customer[k])
        /\ \E k \in 1..Len(bulk_data[i].customer) :
               bulk_data[i].customer[k].tag = "dateOfBirth"
        /\ \E k \in 1..Len(bulk_data[i].customer) :
               bulk_data[i].customer[k].tag = "noFinger"
        /\ \A j \in 1..Len(bulk_data) : bulk_data[j].customer = bulk_data[i].customer

\* Two blocks of rows with different serial numbers and items, their customer
\* elements alike.
C8_Witness ==
    /\ Len(bulk_data) = 2
    /\ SerialOf(block_rows[1].row) # SerialOf(block_rows[2].row)
    /\ bulk_data[1].item.brand # bulk_data[2].item.brand
    /\ bulk_data[1].customer = bulk_data[2].customer

\* The normalized form of a description: upper-cased, trimmed.
Normalized(description) == strip(upper(description))

\* C9: when extract_brand is called with a description whose normalized form is
\* that of a description resolved before, it returns the brand returned then, and
\* calls neither the remote API nor the pattern matcher.
C9_SameBrandFromCache ==
    [][calls' # calls =>
          \A e \in DOMAIN first_answer :
              Normalized(e) = Normalized(last_call'.description) =>
                  /\ last_call'.brand = first_answer[e]
                  /\ ~last_call'.api_called
                  /\ ~last_call'.patterns_called]_vars

\* The same for descriptions that are not empty: the early return for an empty
\* description aside, a normalized description resolved once is answered from
\* the cache.
C9_NonEmptySameBrandFromCache ==
    [][calls' # calls =>
          \A e \in DOMAIN first_answer :
              (/\ e # <<>>
               /\ last_call'.description # <<>>
               /\ Normalized(e) = Normalized(last_call'.description)) =>
                  /\ last_call'.brand = first_answer[e]
                  /\ last_call'.tier = "cache"
                  /\ ~last_call'.api_called
                  /\ ~last_call'.patterns_called]_vars

AnswerOf(resp) == strip(remove_atom(remove_atom(upper(strip(resp.content)), "\""), "'"))

\* The remote call failed or gave no usable answer: no response, a status other
\* than 200, a malformed body, the answer UNKNOWN, or an answer of 50 characters
\* or more.
NoResult(resp) ==
    \/ resp.kind # "http"
    \/ resp.status # 200
    \/ ~resp.well_formed
    \/ AnswerOf(resp) = <<"UNKNOWN">>
    \/ char_len(AnswerOf(resp)) >= 50

\* C11: extract_brand calls the remote API only on a cache miss with an API key
\* set; when the call fails or gives no usable answer (timeout, status other than
\* 200, malformed body, the answer UNKNOWN, an answer over the length cap), the
\* pattern matcher runs and its brand is what extract_brand returns: the call
\* returns a brand in every case.
C11_RemoteFailureFallsBack ==
    [][calls' # calls =>
          /\ last_call'.api_called =>
                 /\ api_key # NoKey
                 /\ last_call'.description # <<>>
                 /\ Normalized(last_call'.description) \notin DOMAIN cache
          /\ (last_call'.api_called /\ NoResult(last_call'.resp)) =>
                 /\ last_call'.patterns_called
                 /\ last_call'.brand = extract_brand_with_patterns(last_call'.description)
          /\ last_call'.brand # NoBrand]_vars

\* A call whose remote request timed out and which returned the brand the
\* patterns found.
C11_Witness ==
    /\ last_call.api_called
    /\ last_call.resp.kind = "timeout"
    /\ last_call.tier = "patterns"
    /\ last_call.brand = <<"ACME">>

\* The serials row is one load_serials_data should index: at least 11 columns and
\* a serial number (column index 1) that is not empty once trimmed.
Indexable(row) == Len(row) >= 11 /\ strip(row[2]) # <<>>

\* The rows of the serials file, by position, that are indexable under the key.
RowsOfSerial(key) ==
    { i \in 1..Len(serials_file) :
          Indexable(serials_file[i]) /\ strip(serials_file[i][2]) = key }

\* The last of a non-empty set of positions.
LastOf(S) == CHOOSE i \in S : \A j \in S : j <= i

\* C12: once load_serials_data has read the serials file, the index holds a key
\* for exactly the trimmed serial numbers of the rows with at least 11 columns and
\* a non-empty trimmed serial number, and under each key the description (column
\* index 6) and subcategory (column index 10) of the last such row in the file.
C12_SerialsIndex ==
    pc # "constructed" =>
        /\ DOMAIN serials_data =
               { strip(serials_file[i][2]) :
                     i \in { j \in 1..Len(serials_file) : Indexable(serials_file[j]) } }
        /\ \A key \in DOMAIN serials_data :
               /\ RowsOfSerial(key) # {}
               /\ serials_data[key].description =
                      strip(serials_file[LastOf(RowsOfSerial(key))][7])
               /\ serials_data[key].subcategory =
                      strip(serials_file[LastOf(RowsOfSerial(key))][11])

\* A file with two indexable rows of one serial number and different
\* descriptions, a row of ten columns, and the index holding the later row.
C12_Witness ==
    /\ pc # "constructed"
    /\ \E i, j \in 1..Len(serials_file) :
          /\ i < j
          /\ Indexable(serials_file[i])
          /\ Indexable(serials_file[j])
          /\ strip(serials_file[i][2]) = strip(serials_file[j][2])
          /\ strip(serials_file[i][7]) # strip(serials_file[j][7])
          /\ serials_data[strip(serials_file[j][2])].description = strip(serials_file[j][7])
    /\ \E i \in 1..Len(serials_file) : Len(serials_file[i]) = 10

\* The run has printed the line.
Printed(text) == \E i \in 1..Len(run_log) : run_log[i].text = text

\* C13: once load_serials_data has failed to read the serials file, the run has
\* printed the error, holds an empty serials index, and, the purchases file being
\* readable, goes on to read it instead of aborting.
C13_FailedLoadGivesEmptyIndex ==
    (pc # "constructed" /\ ~serials_readable) =>
        /\ Printed("Error loading serials file")
        /\ DOMAIN serials_data = {}
        /\ purchases_readable => pc \in {"reading", "done"}

\* What holds of a failed load: the error is printed, the index is that of some
\* rows at the head of the file, and the run goes on to read the purchases file.
C13_FailedLoadReportedRunContinues ==
    (pc # "constructed" /\ ~serials_readable) =>
        /\ Printed("Error loading serials file")
        /\ \E k \in 0..Len(serials_file) : serials_data = index_rows(SubSeq(serials_file, 1, k), <<>>)
        /\ purchases_readable => pc \in {"reading", "done"}

\* A failed load has left rows in the index and a purchase row was accepted on them.
C13_Witness ==
    /\ ~serials_readable
    /\ DOMAIN serials_data # {}
    /\ LastAdded

\* The serials file could not be opened: load_serials_data printed open's error.
SerialsOpenFailed ==
    \E i \in 1..Len(run_log) :
        run_log[i].text = "Error loading serials file" /\ run_log[i].n = OpenError

\* C14: when the serials file or the purchases file cannot be opened, the run is
\* aborted: it does not reach its end and returns no output path.
C14_UnopenableFileAborts ==
    (pc # "constructed" /\ (SerialsOpenFailed \/ ~purchases_readable)) =>
        (pc # "done" /\ output_path = NoPath)

\* What holds of the purchases file: when it cannot be opened the run is left by
\* open's exception before any row is read, and no path is returned.
C14_UnopenablePurchasesFileAborts ==
    (pc # "constructed" /\ ~purchases_readable) =>
        (pc = "raised" /\ row_num = 0 /\ output_path = NoPath)

\* The serials file could not be opened and the run returned the document's path.
C14_Witness ==
    /\ SerialsOpenFailed
    /\ pc = "done"
    /\ output_path = OutputXmlPath

\* upload_to_capss has returned from the named return statement.
UploadReturnedFor(cause) == up_pc = "returned" /\ up_cause = cause

\* C15: an upload that ended for a refused token request, a rejected submission or
\* the status polls running out returned a failed outcome, never success.
C15_UploadFailuresReportedFailed ==
    (\/ UploadReturnedFor("token refused")
     \/ UploadReturnedFor("upload rejected")
     \/ UploadReturnedFor("polls exhausted")) => up_return = FALSE

\* What holds of the first two: a refused token request and a rejected submission
\* return False, each after printing its own line.
C15_RefusalAndRejectionReturnFalse ==
    /\ UploadReturnedFor("token refused") =>
           (up_return = FALSE /\ up_printed = << "Failed to get token" >>)
    /\ UploadReturnedFor("upload rejected") =>
           (up_return = FALSE /\ up_printed = << "Token obtained successfully", "Upload failed" >>)

\* Every status poll was answered without ending the loop and upload_to_capss
\* returned True.
C15_Witness ==
    /\ UploadReturnedFor("polls exhausted")
    /\ polls = MaxStatusPolls
    /\ up_return = TRUE

\* The status response is one of the four kinds: 200 complete, 200 not complete,
\* 202, another status code.
StatusOfAKind(r) ==
    /\ r.kind = "http"
    /\ r.status = 200 => r.body \in {"complete", "processing"}

\* The status response ends the polling: it is complete, or neither 200 nor 202.
EndsPolling(r) ==
    \/ r.status = 200 /\ r.body = "complete"
    \/ r.status \notin {200, 202}

\* The polls made so far, for status responses of the four kinds: at most ten, none
\* made after a response that ends the polling, upload_to_capss back as soon as
\* such a response comes, and back before the tenth poll for no other reason.
PollingBounded ==
    /\ polls <= MaxStatusPolls
    /\ Len(status_responses) = polls
    /\ polls > 0 => up_pc \in {"polling", "returned"}
    /\ (\A i \in 1..polls : StatusOfAKind(status_responses[i])) =>
          /\ \A i \in 1..(polls - 1) : ~EndsPolling(status_responses[i])
          /\ (polls > 0 /\ EndsPolling(status_responses[polls])) => up_pc = "returned"
          /\ (polls > 0 /\ up_pc = "returned") =>
                 (EndsPolling(status_responses[polls]) \/ polls = MaxStatusPolls)

\* C16: the status link is polled at most ten times, the polling stops at the first
\* response that is complete or neither 200 nor 202, and upload_to_capss returns
\* whatever the responses are.
C16_PollingTerminates == []PollingBounded /\ <>(up_pc = "returned")

\* The polling stopped at the third response, the first complete one.
C16_Witness ==
    /\ up_pc = "returned"
    /\ polls = 3
    /\ status_responses = << Http(202, "none"), Http(200, "processing"), Http(200, "complete") >>

\* At most one thread, conversion or upload, is alive.
OneThreadAlive == conversion_threads + upload_threads <= 1

\* C17: in the GUI at most one conversion thread is alive and never a conversion
\* thread together with an upload thread, and a thread is started only when no
\* conversion and no upload thread is alive.
C17_OneRunAtATime ==
    /\ []OneThreadAlive
    /\ [][started' > started => conversion_threads + upload_threads = 0]_vars

\* A conversion, the upload of its document and then a second conversion, which is
\* running.
C17_Witness ==
    /\ started = 3
    /\ conversion_threads = 1
    /\ upload_threads = 0
    /\ convert_button = "disabled"

\* The reasons for which a row is returned without a line being printed.
SilentReasons == {"too_old", "below_min_cost", "isi", "no_match", "no_description", "accepted"}

\* C18: for every purchase row read, rejected by whatever check or accepted, a
\* diagnostic line was printed for that row.
C18_EveryDecisionReported == last.row_num > 0 => last.printed # <<>>

\* What holds: a line is printed for the rows with too few fields, a future or
\* unparseable date or an unparseable amount, and for no other row.
C18_ReportedRows ==
    last.row_num > 0 => (last.printed = <<>> <=> last.reason \in SilentReasons)

\* A row accepted into the document without a line printed for it.
C18_Witness ==
    /\ RowRead
    /\ LastAdded
    /\ last.ret
    /\ last.printed = <<>>

\* The reasons of the input-malformed rows: too few fields, an unparseable date,
\* an unparseable amount.
MalformedReasons == {"short_row", "incomplete", "bad_date", "bad_amount"}

\* C19: each row read that is input-malformed adds one to the malformed count
\* printed in the summary (skipped_count) and nothing to the filtered count.
C19_MalformedCountedApart ==
    [][(last'.row_num > last.row_num /\ last'.reason \in MalformedReasons) =>
          /\ skipped_count' = skipped_count + 1
          /\ filtered_count' = filtered_count]_vars

\* What holds of the three counts: each row read adds one to exactly one of them,
\* an accepted row to processed_count, a row of fewer than five fields to
\* skipped_count and every other row to filtered_count; the summary prints them.
C19_CountsAsCoded ==
    /\ processed_count + filtered_count + skipped_count = row_num
    /\ processed_count = Len(accepted_rows)
    /\ last.row_num > 0 =>
          /\ Len(last.row) < 5 => skipped_count > 0
          /\ (Len(last.row) >= 5 /\ ~last.ret) => filtered_count > 0
    /\ pc = "done" =>
          \E i \in 1..Len(run_log) :
              /\ run_log[i].text = "Skipped rows due to errors or incomplete data"
              /\ run_log[i].n = skipped_count

\* The run ended having read a row with an unparseable date or amount, and its
\* summary shows no skipped row.
C19_Witness ==
    /\ pc = "done"
    /\ last.reason \in {"bad_date", "bad_amount"}
    /\ skipped_count = 0
    /\ filtered_count > 0

\* What the recency check decided for a row read.
RecencyDecision(r) ==
    IF r.reason \in {"too_old", "future", "bad_date"} THEN r.reason ELSE "recent"

\* C20: the age of every row of a run is computed against the time of the run's
\* start, so a row read after one with the same timestamp gets the same recency
\* decision.
C20_SameStampSameDecision ==
    [][(/\ last.row_num > 0
        /\ last'.row_num = last.row_num + 1
        /\ Len(last.row) >= 5
        /\ Len(last'.row) >= 5
        /\ last'.row[1] = last.row[1]) =>
          RecencyDecision(last') = RecencyDecision(last)]_vars

\* What holds: each row's recency is decided against the clock at the time the
\* row is read (last.now).
C20_AgeAgainstClockAtRow ==
    (RowRead /\ Stamp(last.row).ok) =>
        ((RecencyDecision(last) = "recent") <=> RecencyPasses(last.row, last.now))

\* Two rows with the same timestamp, the clock having advanced between them: the
\* first passed the recency check and the second is too old.
C20_Witness ==
    /\ last.row_num = 2
    /\ last.reason = "too_old"
    /\ \E i \in 1..Len(block_rows) :
          /\ block_rows[i].row_num = 1
          /\ block_rows[i].row[1] = last.row[1]

\* The hour of a 12-hour timestamp on the 24-hour clock: 12 AM is 0, 12 PM is 12.
Hour24(stamp) ==
    CASE stamp.ap = "AM" /\ stamp.hh = 12 -> 0
      [] stamp.ap = "AM" /\ stamp.hh # 12 -> stamp.hh
      [] stamp.ap = "PM" /\ stamp.hh = 12 -> 12
      [] stamp.ap = "PM" /\ stamp.hh # 12 -> stamp.hh + 12

\* C21: the transactionTime of every block of the document is the timestamp of the
\* row that added it, its date unchanged and its hour on the 24-hour clock; in
\* particular it is the time of the row and not the clock's when the two differ.
C21_TransactionTimeIsRowTimestamp ==
    \A i \in 1..Len(bulk_data) :
        /\ block_rows[i].row[1].hh \in 1..12
        /\ block_rows[i].row[1].ap \in {"AM", "PM"}
        /\ bulk_data[i].transactionTime.date = block_rows[i].row[1].day
        /\ bulk_data[i].transactionTime.HH = Hour24(block_rows[i].row[1])

\* A row stamped 1 PM two days before the run was accepted: its block carries
\* hour 13 of day 8, which is not the time of the run.
C21_Witness ==
    /\ RowRead
    /\ LastAdded
    /\ last.row[1] = [day |-> 8, hh |-> 1, ap |-> "PM"]
    /\ bulk_data[Len(bulk_data)].transactionTime = [date |-> 8, HH |-> 13]
    /\ bulk_data[Len(bulk_data)].transactionTime # strftime(last.now)

\* The entries of color_map whose name is a word of the description, the letter
\* case set aside: the name is one of the description's atoms, whatever stands
\* next to it.
WholeWordHits(description) ==
    { i \in 1..Len(color_map) :
          \E k \in 1..Len(description) : UpperAtom(description[k]) = color_map[i][1] }

\* The entries of color_map whose name is a word of the description with a space
\* or an end of the description on either side.
SpaceDelimitedHits(description) ==
    { i \in 1..Len(color_map) :
          \E k \in 1..Len(description) :
              /\ UpperAtom(description[k]) = color_map[i][1]
              /\ (k = 1 \/ description[k - 1] = " ")
              /\ (k = Len(description) \/ description[k + 1] = " ") }

\* The canonical color of the first of the entries, "Other" when there is none.
ColorOfFirst(hits) ==
    IF hits = {} THEN "Other"
    ELSE color_map[CHOOSE i \in hits : \A j \in hits : i <= j][2]

\* C22: the color of every block is the canonical color of the first entry of
\* color_map whose name is a whole word of the block's description, in any letter
\* case, and "Other" when no entry's name is.
C22_WholeWordFirstInTable ==
    \A i \in 1..Len(bulk_data) :
        bulk_data[i].item.color = ColorOfFirst(WholeWordHits(bulk_data[i].item.description))

\* What holds: the color is that of the first entry of color_map whose name stands
\* in the description between spaces or the description's ends.
C22_SpaceDelimitedFirstInTable ==
    \A i \in 1..Len(bulk_data) :
        bulk_data[i].item.color
            = ColorOfFirst(SpaceDelimitedHits(bulk_data[i].item.description))

\* A block whose description has the word black before a comma, colored "Other".
C22_Witness ==
    /\ bulk_data # <<>>
    /\ bulk_data[1].item.description = <<"GIBSON", " ", "black", ",", " ", "used">>
    /\ bulk_data[1].item.color = "Other"

\* A block whose description names navy and then cream, colored WHITE for CREAM,
\* the earlier of the two in color_map.
C22_TableOrderWitness ==
    /\ bulk_data # <<>>
    /\ bulk_data[1].item.description = <<"Fender", " ", "navy", " ", "cream">>
    /\ bulk_data[1].item.color = "WHITE"

\* C23: in a run started by main, the employeeName of every block is the value of
\* -e/--employee, and the document is written to the path given with -o/--output.
C23_EmployeeAndOutputFromArgs ==
    main_pc = "called" =>
        /\ \A i \in 1..Len(bulk_data) : bulk_data[i].store.employeeName = args_employee
        /\ pc = "done" => output_path = args_output

\* What holds: the employeeName of every block is the value of -o/--output, the
\* value of -e/--employee is bound to client_id, and the document is written to
\* capps_upload.xml whatever -o/--output says.
C23_ArgumentsAsBound ==
    main_pc = "called" =>
        /\ client_id = args_employee
        /\ \A i \in 1..Len(bulk_data) : bulk_data[i].store.employeeName = args_output
        /\ pc = "done" => output_path = OutputXmlPath

\* A run of main -o out/october.xml -e "Pat Lee" that ended with a block whose
\* employeeName is the output path.
C23_Witness ==
    /\ main_pc = "called"
    /\ pc = "done"
    /\ args_employee = <<"Pat", " ", "Lee">>
    /\ args_output = <<"out", "/", "october.xml">>
    /\ bulk_data # <<>>
    /\ bulk_data[1].store.employeeName = <<"out", "/", "october.xml">>
    /\ output_path = <<"capps_upload.xml">>

\* The amount of the row as a number, when it is one.
AmountValue(row) == parse_amount(row[3]).value

MessagesWritten == [i \in 1..written |-> i]

\* The message numbered m is in the text widget.
Inserted(m) == \E i \in 1..Len(text_widget) : text_widget[i] = m

\* A process_queue is registered with the main loop, or a thread is inside write()
\* or process_queue and has not yet passed the point where it registers one.
CallbackComing == pending > 0 \/ w_pc # "idle" \/ p_pc # "idle"

\* Claim C25: for every interleaving of write() on a background thread with
\* process_queue() on the main thread, the text widget followed by the queue is
\* always exactly the non-empty messages written, in the order written (so none is
\* lost, duplicated or reordered), a message never waits in the queue with no
\* process_queue registered or about to be, and every message written is
\* eventually in the text widget.
C25_EveryMessageInsertedOnceInOrder ==
    /\ [](text_widget \o queue = MessagesWritten)
    /\ [](queue # <<>> => CallbackComing)
    /\ \A m \in 1..MaxMessages : (written >= m) ~> Inserted(m)

\* A message arrived after process_queue's loop had found the queue empty, with
\* earlier messages already in the widget.
C25_Witness ==
    /\ p_pc = "check"
    /\ queue # <<>>
    /\ Len(text_widget) >= 2
    /\ empties > 0

\* ---------------------------------------------------------------------- C26

\* The dialogs that offer or report an upload.
UploadOffers == {"post_conversion", "ask_upload", "missing_credentials", "upload_success", "upload_failed"}

\* The dialog named is open.
Showing(box) == \E i \in 1..Len(dialog) : dialog[i] = box

\* on_conversion_complete has just run: check_conversion_status found the thread
\* finished.
ConversionCompleted == conversion_check /\ ~conversion_check'

\* Claim C26: a conversion whose purchases file cannot be opened ends with a
\* tagged failure result, never with a thread that ended without one: the result
\* the thread leaves is the failure with the error's text, on_conversion_complete
\* shows the Conversion Error box while that result is still the recorded one, and
\* no dialog offering an upload is opened and no upload thread started.
C26_UnopenablePurchasesIsTaggedFailure ==
    /\ [](~purchases_readable =>
            /\ conversion_result \in {"none", OpenError}
            /\ Showing("conversion_error") => conversion_result = OpenError
            /\ \A box \in UploadOffers : ~Showing(box)
            /\ upload_threads = 0
            /\ ~upload_check
            /\ upload_result = "none")
    /\ [][(~purchases_readable /\ conversion_threads' < conversion_threads) =>
             conversion_result' = OpenError]_vars
    /\ [][(~purchases_readable /\ ConversionCompleted) =>
             /\ conversion_result = OpenError
             /\ dialog' = << "conversion_error" >> \o dialog
             /\ convert_button' = "normal"]_vars

\* The error box of a conversion whose purchases file could not be opened is on
\* the screen.
C26_Witness ==
    /\ ~purchases_readable
    /\ dialog = << "conversion_error" >>
    /\ conversion_result = OpenError
    /\ conversion_threads = 0
    /\ convert_button = "normal"

\* ---------------------------------------------------------------------- C27

\* The three counts as the summary printed them.
SummaryPrinted(p, f, s) == \E i \in 1..Len(run_log) - 2 : run_log[i] = summary(p, f, s)[1] /\ run_log[i + 1] = summary(p, f, s)[2] /\ run_log[i + 2] = summary(p, f, s)[3]

RowRejectedInStep == last'.row_num > last.row_num /\ ~last'.ret

\* A row was read in this step and process_purchase_row returned True for it.
RowAcceptedInStep == last'.row_num > last.row_num /\ last'.ret

Extends(d, c) == \A k \in DOMAIN c : k \in DOMAIN d /\ d[k] = c[k]

\* Claim C29: within one BrandExtractor the cache only grows: a call of
\* extract_brand leaves every entry in place with the brand it had, and adds at
\* most the entry of the description it was called with, and only when that
\* description was not yet a key.
C29_CacheOnlyGrows ==
    [][/\ Extends(cache', cache)
       /\ cache' # cache =>
             /\ calls' = calls + 1
             /\ strip(upper(last_call'.description)) \notin DOMAIN cache
             /\ DOMAIN cache' = DOMAIN cache \cup {strip(upper(last_call'.description))}
             /\ cache'[strip(upper(last_call'.description))] = last_call'.brand]_vars

\* A call answered from the cache while the remote API, had it been asked, would
\* have given another brand, with a second entry stored beside the first.
C29_Witness ==
    /\ last_call.tier = "cache"
    /\ api_key # NoKey
    /\ Cardinality(DOMAIN cache) >= 2
    /\ \E k \in DOMAIN cache : cache[k] = <<"ACME">>
    /\ \E k \in DOMAIN cache : cache[k] # <<"ACME">>

\* ---------------------------------------------------------------------- C30

\* on_upload_complete has just run: check_upload_status found the thread finished.
UploadCompleted == upload_check /\ ~upload_check'

\* A conversion thread, or an upload thread, ends in this step.
ConversionThreadEnded == conversion_threads' < conversion_threads

UploadThreadEnded == upload_threads' < upload_threads

\* Claim C30: while a conversion or upload thread the GUI started is alive the
\* Convert button is disabled and that thread's completion handler is pending;
\* the handler runs only once the thread has finished, reads the result that
\* thread left, enables the button whether the result is a success or a failure,
\* and shows the outcome; it cannot run a second time for the same thread, and
\* once the thread has finished it does eventually run.
C30_ButtonDisabledWhileThreadRuns ==
    /\ []((conversion_threads + upload_threads > 0) => convert_button = "disabled")
    /\ [](conversion_threads > 0 => conversion_check)
    /\ [](upload_threads > 0 => upload_check)
    /\ [](conversion_check => convert_button = "disabled")
    /\ [](upload_check => convert_button = "disabled")
    /\ [][started' > started =>
             /\ convert_button' = "disabled"
             /\ ~conversion_check /\ ~upload_check
             /\ conversion_check' # upload_check']_vars
    /\ [][ConversionThreadEnded => (conversion_check' /\ conversion_result' # "none")]_vars
    /\ [][UploadThreadEnded => (upload_check' /\ upload_result' # "none")]_vars
    /\ [][ConversionCompleted =>
             /\ conversion_threads = 0
             /\ conversion_result # "none"
             /\ convert_button' = "normal"
             /\ dialog' = << IF conversion_result = "success"
                             THEN "post_conversion" ELSE "conversion_error" >> \o dialog]_vars
    /\ [][UploadCompleted =>
             /\ upload_threads = 0
             /\ upload_result # "none"
             /\ convert_button' = "normal"
             /\ dialog' = << IF upload_result = "success"
                             THEN "upload_success" ELSE "upload_failed" >> \o dialog]_vars
    /\ [][(convert_button = "disabled" /\ convert_button' = "normal") =>
             (ConversionCompleted \/ UploadCompleted)]_vars
    /\ (conversion_check /\ conversion_threads = 0) ~> (~conversion_check /\ convert_button = "normal")
    /\ (upload_check /\ upload_threads = 0) ~> (~upload_check /\ convert_button = "normal")

\* A failed upload that followed a successful conversion has been handled: the
\* button is enabled again and the failure is on the screen.
C30_Witness ==
    /\ started = 2
    /\ conversion_threads + upload_threads = 0
    /\ ~upload_check
    /\ upload_result = "failed"
    /\ dialog # <<>>
    /\ Head(dialog) = "upload_failed"
    /\ convert_button = "normal"

====
